---- MODULE Spec2Model ----
(***************************************************************************)
(* Model of chidori-core's incremental dataflow engine:                    *)
(*   toolchain/chidori-core/src/execution/execution/execution_state.rs     *)
(*                                                                         *)
(* An ExecutionState is a persistent snapshot (im::HashMap / im::HashSet): *)
(* a store `state`, the set `has_been_set`, the table `operation_by_id`    *)
(* and the map `dependency_graph`.  Option<T> is modelled as a sequence of *)
(* length at most one: None is << >> and Some(x) is <<x>>.  A byte buffer  *)
(* is modelled by the number it encodes.                                   *)
(***************************************************************************)
EXTENDS Integers, Sequences, FiniteSets, TLC

\* ------------------------------------------------------------------ bounds
MaxArity == 2
MaxDeps == 2
MaxVal == 2

OperationIds == {1, 2}
ArgumentIndices == 0 .. (MaxArity - 1)
Funcs == {"value"}
InsertValues == {<<1>>}

None == << >>
Some(x) == <<x>>

\* ----------------------------------------------------------------- helpers
Min(a, b) == IF a <= b THEN a ELSE b

EmptyMap == [k \in {} |-> None]

Without(f, ks) == [k \in (DOMAIN f) \ ks |-> f[k]]

With(f, k, v) == [x \in (DOMAIN f) \cup {k} |-> IF x = k THEN v ELSE f[x]]

\* every iteration order of a hash set / hash map
Perms(S) ==
  {p \in [1 .. Cardinality(S) -> S] : \A x \in S : \E i \in DOMAIN p : p[i] = x}

\* Inputs of the model.  The ids are interchangeable in the code, so the
\* first id is given the simple nodes (at most one argument, wired on slot 0)
\* and the last id the full range of arities and dependency vectors.
First == CHOOSE i \in OperationIds : \A j \in OperationIds : i <= j

Last == CHOOSE i \in OperationIds : \A j \in OperationIds : j <= i

Arities(node) == IF node = First THEN 0 .. 1 ELSE 0 .. MaxArity

Slots(node) == IF node = First THEN {0} ELSE ArgumentIndices

Before(p, q) == p[1] < q[1] \/ (p[1] = q[1] /\ p[2] < q[2])

\* Vec<(OperationId, ArgumentIndex)> values of length at most n for a
\* Create of `node`; DepLists keeps the vectors that list distinct pairs in
\* increasing order (the code turns the vector into a HashSet, which forgets
\* the order and the repetitions)
RECURSIVE DepVecs(_, _)
DepVecs(node, n) ==
  IF n = 0 THEN {<< >>}
  ELSE LET shorter == DepVecs(node, n - 1)
       IN shorter \cup
          {Append(v, <<s, i>>) :
             v \in {w \in shorter : Len(w) = n - 1},
             s \in OperationIds, i \in Slots(node)}

Sorted(v) == \A i \in 1 .. (Len(v) - 1) : Before(v[i], v[i + 1])

DepLists(node) ==
  {v \in DepVecs(node, IF node = First THEN 1 ELSE MaxDeps) : Sorted(v)}

\* ----------------------------------------------------------- ExecutionState
new ==
  [id |-> <<0, 0>>,
   state |-> EmptyMap,
   operation_by_id |-> EmptyMap,
   has_been_set |-> {},
   dependency_graph |-> EmptyMap]

state_get(self, operation_id) ==
  IF operation_id \in DOMAIN self.state
    THEN Some(self.state[operation_id])
    ELSE None

\* deserialize_from_buf: the codec is opaque; the decoded value is the
\* buffer's number under a tag
deserialize_from_buf(buf) == [rsv |-> buf]

\* state_get_value: the value under the id, decoded; the unwrap of line 91
\* aborts the call when the id holds an absent value
state_get_value(self, operation_id) ==
  LET x == state_get(self, operation_id)
  IN IF x = None THEN [panicked |-> FALSE, ret |-> None]
     ELSE IF x[1] = None THEN [panicked |-> TRUE, ret |-> None]
     ELSE [panicked |-> FALSE, ret |-> Some(deserialize_from_buf(x[1][1]))]

\* variant: asks the store instead of has_been_set
check_if_previously_set_store(self, operation_id) ==
  operation_id \in DOMAIN self.state

check_if_previously_set(self, operation_id) ==
  operation_id \in self.has_been_set

\* variant: removes nothing
state_consume_marked_keep(self, marked_for_consumption) == self

\* variant: stops after the first key
state_consume_marked_first(self, marked_for_consumption) ==
  IF marked_for_consumption = {} THEN self
  ELSE [self EXCEPT !.state =
          Without(@, {CHOOSE k \in marked_for_consumption :
                        \A j \in marked_for_consumption : k <= j})]

\* variant: forgets that the consumed ids were ever set
state_consume_marked_forget(self, marked_for_consumption) ==
  [self EXCEPT !.state = Without(@, marked_for_consumption),
               !.has_been_set = @ \ marked_for_consumption]

state_consume_marked(self, marked_for_consumption) ==
  [self EXCEPT !.state = Without(@, marked_for_consumption)]

\* variant: writes the store and leaves has_been_set as it is
state_insert_store_only(self, operation_id, value) ==
  [self EXCEPT !.state = With(@, operation_id, value)]

\* variant: keeps the value an id already holds
state_insert_first_wins(self, operation_id, value) ==
  [self EXCEPT !.state = IF operation_id \in DOMAIN @ THEN @
                         ELSE With(@, operation_id, value),
               !.has_been_set = @ \cup {operation_id}]

state_insert(self, operation_id, value) ==
  [self EXCEPT !.state = With(@, operation_id, value),
               !.has_been_set = @ \cup {operation_id}]

\* one iteration order of a set (the order a hash container yields is
\* unspecified; the results below do not depend on it, see NodeOrders and
\* EdgeOrders for the two orders that the scheduler can observe)
RECURSIVE SetToSeq(_)
SetToSeq(S) ==
  IF S = {} THEN << >>
  ELSE LET x == CHOOSE y \in S : TRUE IN <<x>> \o SetToSeq(S \ {x})

\* petgraph DiGraphMap<OperationId, Vec<ArgumentIndex>>
EmptyGraph == [nodes |-> {}, weight |-> [e \in {} |-> << >>]]

add_node(graph, n) == [graph EXCEPT !.nodes = @ \cup {n}]

\* variant: the source of an edge does not become a node of the graph
add_edge_target_only(graph, a, b, w) ==
  [nodes |-> graph.nodes \cup {b},
   weight |-> With(graph.weight, <<a, b>>, w)]

\* DiGraphMap::add_edge: inserts both end points, replaces the weight
add_edge(graph, a, b, w) ==
  [nodes |-> graph.nodes \cup {a, b},
   weight |-> With(graph.weight, <<a, b>>, w)]

\* variant: the weight of an edge is the index added last
RECURSIVE AddEdges_replace(_, _, _)
AddEdges_replace(graph, node, value) ==
  IF value = << >> THEN graph
  ELSE AddEdges_replace(add_edge(graph, Head(value)[1], node,
                                 <<Head(value)[2]>>),
                        node, Tail(value))

\* the inner loop of get_dependency_graph over one node's edge set
RECURSIVE AddEdges(_, _, _)
AddEdges(graph, node, value) ==
  IF value = << >> THEN graph
  ELSE LET depends_on == Head(value)[1]
           index == Head(value)[2]
           r == IF <<depends_on, node>> \in DOMAIN graph.weight
                  THEN Some(graph.weight[<<depends_on, node>>])
                  ELSE None
           g1 == add_edge(graph, depends_on, node, <<index>>)
           g2 == IF r # None
                   THEN [g1 EXCEPT !.weight[<<depends_on, node>>] = @ \o r[1]]
                   ELSE g1
       IN AddEdges(g2, node, Tail(value))

RECURSIVE AddNodes(_, _, _)
AddNodes(graph, dg, keys) ==
  IF keys = << >> THEN graph
  ELSE LET node == Head(keys)
       IN AddNodes(AddEdges(add_node(graph, node), node, SetToSeq(dg[node])),
                   dg, Tail(keys))

get_dependency_graph(self) ==
  AddNodes(EmptyGraph, self.dependency_graph,
           SetToSeq(DOMAIN self.dependency_graph))

\* edges_directed(operation_id, Direction::Incoming): the sources
Incoming(graph, operation_id) ==
  {e[1] : e \in {x \in DOMAIN graph.weight : x[2] = operation_id}}

\* variant: inserts into self instead of into the clone
add_operation_in_place(self, node, args, func) ==
  LET s == [self EXCEPT !.operation_by_id =
                With(@, node, [dependency_count |-> args, func |-> func])]
  IN [self |-> s, ret |-> s]

\* add_operation(&mut self, ..) -> Self: the caller's state after the call
\* and the returned successor
add_operation(self, node, args, func) ==
  LET s == [self EXCEPT !.operation_by_id =
                With(@, node, [dependency_count |-> args, func |-> func])]
  IN [self |-> self, ret |-> s]

\* HashSet::from_iter / extend: duplicates of a pair collapse
ToSet(depends_on) == {depends_on[i] : i \in DOMAIN depends_on}

Create(operation_id, depends_on) ==
  [kind |-> "Create", operation_id |-> operation_id, depends_on |-> depends_on]

Delete(operation_id) == [kind |-> "Delete", operation_id |-> operation_id]

Mutations ==
  UNION {{Create(i, d) : d \in DepLists(i)} : i \in OperationIds}
    \cup {Delete(i) : i \in OperationIds}

\* The order-only index of the comment at lines 45-46, usize::MAX.  The
\* model keeps the largest integer of the checker in its place: the code
\* only compares the index with lengths of argument vectors, which it
\* exceeds just as usize::MAX does.
ORDER_ONLY == 2147483647

\* Create mutations that wire a node by an order-only edge, alone or next to
\* a value edge on slot 0
OrderOnlyMutations ==
  {Create(i, <<<<s, ORDER_ONLY>>>>) : i \in OperationIds, s \in OperationIds}
    \cup {Create(i, <<<<s, 0>>, <<t, ORDER_ONLY>>>>) :
            i \in OperationIds, s \in OperationIds, t \in OperationIds}

\* variant: extends the existing edge set without clearing it
ApplyCreate_merge(s, operation_id, depends_on) ==
  IF operation_id \in DOMAIN s.dependency_graph
    THEN [s EXCEPT !.dependency_graph[operation_id] =
                     @ \cup ToSet(depends_on)]
    ELSE [s EXCEPT !.dependency_graph =
            With(@, operation_id, ToSet(depends_on))]

\* variant: edits an existing edge set only
ApplyCreate_existing_only(s, operation_id, depends_on) ==
  IF operation_id \in DOMAIN s.dependency_graph
    THEN [s EXCEPT !.dependency_graph[operation_id] =
                     {} \cup ToSet(depends_on)]
    ELSE s

\* lines 154-166, the Create arm: an existing edge set is cleared and
\* extended, a missing one is inserted
ApplyCreate(s, operation_id, depends_on) ==
  IF operation_id \in DOMAIN s.dependency_graph
    THEN [s EXCEPT !.dependency_graph[operation_id] =
                     {} \cup ToSet(depends_on)]
    ELSE [s EXCEPT !.dependency_graph =
            With(@, operation_id, ToSet(depends_on))]

\* variant: removes nothing
ApplyDelete_noop(s, operation_id) == s

\* variant: leaves an empty edge set under the id
ApplyDelete_clears(s, operation_id) ==
  [s EXCEPT !.dependency_graph = With(@, operation_id, {})]

\* variant: drops the stored value of the id with its edge set
ApplyDelete_with_value(s, operation_id) ==
  [s EXCEPT !.dependency_graph = Without(@, {operation_id}),
            !.state = Without(@, {operation_id})]

\* lines 167-169, the Delete arm
ApplyDelete(s, operation_id) ==
  [s EXCEPT !.dependency_graph = Without(@, {operation_id})]

\* variant: walks the list from its end
RECURSIVE ApplyEach_reversed(_, _)
ApplyEach_reversed(s, mutations) ==
  IF mutations = << >> THEN s
  ELSE LET mutation == mutations[Len(mutations)]
           operation_id == mutation.operation_id
           s1 == IF mutation.kind = "Create"
                   THEN ApplyCreate(s, operation_id, mutation.depends_on)
                   ELSE ApplyDelete(s, operation_id)
       IN ApplyEach_reversed(s1, SubSeq(mutations, 1, Len(mutations) - 1))

\* lines 152-171: the loop over the mutations
RECURSIVE ApplyEach(_, _)
ApplyEach(s, mutations) ==
  IF mutations = << >> THEN s
  ELSE LET mutation == Head(mutations)
           operation_id == mutation.operation_id
           s1 == IF mutation.kind = "Create"
                   THEN ApplyCreate(s, operation_id, mutation.depends_on)
                   ELSE ApplyDelete(s, operation_id)
       IN ApplyEach(s1, Tail(mutations))

apply_dependency_graph_mutations(self, mutations) ==
  [self |-> self, ret |-> ApplyEach(self, mutations)]

\* OperationNode::execute: runs the node's body on the assembled arguments.
\* The bodies of the model: "value" returns 1 plus the sum of the arguments
\* that are present (the constant 1 for a node without arguments, input + 1
\* for a node with one), saturating at MaxVal; "none" returns absence;
\* "fail" fails.
RECURSIVE SumPresent(_)
SumPresent(args) ==
  IF args = << >> THEN 0
  ELSE (IF Head(args) = None THEN 0 ELSE Head(args)[1]) + SumPresent(Tail(args))

execute(op_node, args) ==
  CASE op_node.func = "value" -> [ok |-> TRUE,
                               result |-> Some(Min(1 + SumPresent(args), MaxVal))]
    [] op_node.func = "none" -> [ok |-> TRUE, result |-> None]
    [] OTHER -> [ok |-> FALSE, result |-> None]

\* variant: a slot keeps the first value written to it
RECURSIVE ApplyWeights_first_wins(_, _, _)
ApplyWeights_first_wins(g, output, argument_indices) ==
  IF argument_indices = << >> \/ g.panicked THEN g
  ELSE LET weight == Head(argument_indices)
       IN IF weight >= Len(g.args)
            THEN [g EXCEPT !.panicked = TRUE]
            ELSE ApplyWeights_first_wins(
                   [g EXCEPT !.args[weight + 1] =
                               IF weight \in g.filled THEN @ ELSE output,
                             !.filled = @ \cup {weight},
                             !.dep_count = IF @ > 0 THEN @ - 1 ELSE @],
                   output, Tail(argument_indices))

\* variant: an index that is no slot of the node is passed over
RECURSIVE ApplyWeights_in_range_only(_, _, _)
ApplyWeights_in_range_only(g, output, argument_indices) ==
  IF argument_indices = << >> THEN g
  ELSE LET weight == Head(argument_indices)
       IN IF weight >= Len(g.args)
            THEN ApplyWeights_in_range_only(g, output, Tail(argument_indices))
            ELSE ApplyWeights_in_range_only(
                   [g EXCEPT !.args[weight + 1] = output,
                             !.filled = @ \cup {weight},
                             !.dep_count = IF @ > 0 THEN @ - 1 ELSE @],
                   output, Tail(argument_indices))

\* variant: writing a slot a second time aborts
RECURSIVE ApplyWeights_write_once(_, _, _)
ApplyWeights_write_once(g, output, argument_indices) ==
  IF argument_indices = << >> \/ g.panicked THEN g
  ELSE LET weight == Head(argument_indices)
       IN IF weight >= Len(g.args) \/ weight \in g.filled
            THEN [g EXCEPT !.panicked = TRUE]
            ELSE ApplyWeights_write_once(
                   [g EXCEPT !.args[weight + 1] = output,
                             !.filled = @ \cup {weight},
                             !.dep_count = IF @ > 0 THEN @ - 1 ELSE @],
                   output, Tail(argument_indices))

\* lines 204-209: every index of one edge writes the source's value
RECURSIVE ApplyWeights(_, _, _)
ApplyWeights(g, output, argument_indices) ==
  IF argument_indices = << >> \/ g.panicked THEN g
  ELSE LET weight == Head(argument_indices)
       IN IF weight >= Len(g.args)
            THEN [g EXCEPT !.panicked = TRUE]
            ELSE ApplyWeights(
                   [g EXCEPT !.args[weight + 1] = output,
                             !.filled = @ \cup {weight},
                             !.dep_count = IF @ > 0 THEN @ - 1 ELSE @],
                   output, Tail(argument_indices))

\* variant: reads the state under construction
PreviousOutput_same_tick(previous_state, new_state, from) ==
  state_get(new_state, from)

\* line 201: the value an edge reads is the one the previous state holds,
\* not the one new_state holds at that point of the traversal
PreviousOutput(previous_state, new_state, from) ==
  state_get(previous_state, from)

\* lines 197-211: the incoming edges of operation_id, in the order `edges`
RECURSIVE FetchEdges(_, _, _, _, _, _)
FetchEdges(previous_state, new_state, dependency_graph, operation_id, edges, g) ==
  IF edges = << >> \/ g.panicked THEN g
  ELSE LET from == Head(edges)
           argument_indices == dependency_graph.weight[<<from, operation_id>>]
           output == PreviousOutput(previous_state, new_state, from)
           g1 == IF output # None
                   THEN ApplyWeights([g EXCEPT !.marked = @ \cup {from}],
                                     output[1], argument_indices)
                   ELSE g
       IN FetchEdges(previous_state, new_state, dependency_graph,
                     operation_id, Tail(edges), g1)

\* one more occurrence of k in the tally f
Counted(f, k) == With(f, k, IF k \in DOMAIN f THEN f[k] + 1 ELSE 1)

\* lines 184-222: one iteration of 'traverse_nodes
ProcessNode(previous_state, dependency_graph, acc, operation_id, edges) ==
  IF operation_id \notin DOMAIN previous_state.operation_by_id
    THEN [acc EXCEPT !.panicked = TRUE]
  ELSE
    LET op_node == previous_state.operation_by_id[operation_id]
        dep_count == op_node.dependency_count
    IN IF dep_count = 0 /\ check_if_previously_set(previous_state, operation_id)
         THEN acc
       ELSE
         LET g == FetchEdges(previous_state, acc.new_state,
                             dependency_graph, operation_id, edges,
                             [args |-> [i \in 1 .. dep_count |-> None],
                              dep_count |-> dep_count,
                              marked |-> acc.marked_for_consumption,
                              filled |-> {},
                              panicked |-> FALSE])
             seen == [acc EXCEPT !.marked_for_consumption = g.marked,
                                 !.filled = With(@, operation_id, g.filled)]
         IN IF g.panicked THEN [seen EXCEPT !.panicked = TRUE]
            ELSE IF g.dep_count # 0 THEN seen
            ELSE LET r == execute(op_node, g.args)
                     ran == [seen EXCEPT !.fired = With(@, operation_id, g.args),
                                         !.invoked = Counted(@, operation_id)]
                 IN IF ~r.ok THEN [ran EXCEPT !.panicked = TRUE]
                    ELSE [ran EXCEPT !.new_state =
                            state_insert(@, operation_id, r.result),
                                     !.written = Counted(@, operation_id)]

\* variant: visits every node twice
RECURSIVE TraverseNodes_revisit(_, _, _, _, _)
TraverseNodes_revisit(previous_state, dependency_graph, acc, nodes, edgeOrder) ==
  IF nodes = << >> \/ acc.panicked THEN acc
  ELSE LET once == ProcessNode(previous_state, dependency_graph, acc,
                               Head(nodes), edgeOrder[Head(nodes)])
           twice == IF once.panicked THEN once
                    ELSE ProcessNode(previous_state, dependency_graph, once,
                                     Head(nodes), edgeOrder[Head(nodes)])
       IN TraverseNodes_revisit(previous_state, dependency_graph, twice,
                                Tail(nodes), edgeOrder)

RECURSIVE TraverseNodes(_, _, _, _, _)
TraverseNodes(previous_state, dependency_graph, acc, nodes, edgeOrder) ==
  IF nodes = << >> \/ acc.panicked THEN acc
  ELSE TraverseNodes(previous_state, dependency_graph,
                     ProcessNode(previous_state, dependency_graph, acc,
                                 Head(nodes), edgeOrder[Head(nodes)]),
                     Tail(nodes), edgeOrder)

\* variant: builds the new state on an empty store instead of on a copy of
\* the previous one
step_execution_fresh(self, nodeOrder, edgeOrder) ==
  LET previous_state == self
      dependency_graph == get_dependency_graph(previous_state)
      acc == TraverseNodes(previous_state, dependency_graph,
                           [new_state |-> [previous_state EXCEPT
                                             !.state = EmptyMap],
                            marked_for_consumption |-> {},
                            fired |-> EmptyMap,
                            filled |-> EmptyMap,
                            invoked |-> EmptyMap,
                            written |-> EmptyMap,
                            panicked |-> FALSE],
                           nodeOrder, edgeOrder)
  IN [self |-> self,
      panicked |-> acc.panicked,
      ret |-> state_consume_marked(acc.new_state, acc.marked_for_consumption),
      fired |-> acc.fired,
      filled |-> acc.filled,
      invoked |-> acc.invoked,
      written |-> acc.written,
      marked |-> acc.marked_for_consumption]

\* variant: hands back the state under construction when the traversal
\* aborts
step_execution_partial(self, nodeOrder, edgeOrder) ==
  LET previous_state == self
      dependency_graph == get_dependency_graph(previous_state)
      acc == TraverseNodes(previous_state, dependency_graph,
                           [new_state |-> previous_state,
                            marked_for_consumption |-> {},
                            fired |-> EmptyMap,
                            filled |-> EmptyMap,
                            invoked |-> EmptyMap,
                            written |-> EmptyMap,
                            panicked |-> FALSE],
                           nodeOrder, edgeOrder)
  IN [self |-> self,
      panicked |-> FALSE,
      ret |-> state_consume_marked(acc.new_state, acc.marked_for_consumption),
      fired |-> acc.fired,
      filled |-> acc.filled,
      invoked |-> acc.invoked,
      written |-> acc.written,
      marked |-> acc.marked_for_consumption]

\* step_execution(&self) -> ExecutionState.  nodeOrder is the order in which
\* dependency_graph.nodes() yields the nodes, edgeOrder[n] the order in which
\* edges_directed(n, Incoming) yields the sources of n.  The result carries
\* the caller's state after the call, the returned state (when the call does
\* not panic) and what the tick did: fired maps each node whose body was
\* invoked to its argument list, filled maps each node that scanned its
\* edges to the slots that were written, invoked and written tally the
\* invocations of execute and the calls of state_insert per id.
step_execution(self, nodeOrder, edgeOrder) ==
  LET previous_state == self
      dependency_graph == get_dependency_graph(previous_state)
      acc == TraverseNodes(previous_state, dependency_graph,
                           [new_state |-> previous_state,
                            marked_for_consumption |-> {},
                            fired |-> EmptyMap,
                            filled |-> EmptyMap,
                            invoked |-> EmptyMap,
                            written |-> EmptyMap,
                            panicked |-> FALSE],
                           nodeOrder, edgeOrder)
  IN [self |-> self,
      panicked |-> acc.panicked,
      ret |-> state_consume_marked(acc.new_state, acc.marked_for_consumption),
      fired |-> acc.fired,
      filled |-> acc.filled,
      invoked |-> acc.invoked,
      written |-> acc.written,
      marked |-> acc.marked_for_consumption]

NodeOrders(self) == Perms(get_dependency_graph(self).nodes)

RECURSIVE OrdersOver(_, _)
OrdersOver(dependency_graph, nodes) ==
  IF nodes = << >> THEN {EmptyMap}
  ELSE {With(f, Head(nodes), p) :
          f \in OrdersOver(dependency_graph, Tail(nodes)),
          p \in Perms(Incoming(dependency_graph, Head(nodes)))}

EdgeOrders(self) ==
  LET dependency_graph == get_dependency_graph(self)
  IN OrdersOver(dependency_graph, SetToSeq(dependency_graph.nodes))

\* ------------------------------------------------------------------ system
\* cur: the snapshot the host holds.  status: "panicked" once a call has
\* aborted.  last: what the last call did: its name, whether the snapshot it
\* was called on reads the same after the call as before (kept), and for
\* step_execution the store, has_been_set, operation table and
\* dependency-graph map of the state it was called on
\* (prev), the nodes whose body was invoked with their argument lists
\* (fired), the slots written for each node that scanned its edges (filled)
\* and the sources marked for consumption (marked), and how often execute
\* and state_insert were called per id (invoked, written).  zeroRuns: how often
\* the body of the zero-dependency node registered under each id has been
\* invoked (2 standing for two or more).
\* age: for each store entry written by a firing node, the number of later
\* ticks it has survived (0 or 1, 1 standing for one or more).
VARIABLES cur, status, last, zeroRuns, age

vars == <<cur, status, last, zeroRuns, age>>

NoPrev == [state |-> EmptyMap, has_been_set |-> {}]

Call(name, kept) ==
  [op |-> name, kept |-> kept, prev |-> NoPrev,
   fired |-> EmptyMap, filled |-> EmptyMap, marked |-> {},
   invoked |-> EmptyMap, written |-> EmptyMap]

Init ==
  /\ cur = new
  /\ status = "running"
  /\ last = Call("call", TRUE)
  /\ zeroRuns = [i \in OperationIds |-> 0]
  /\ age = EmptyMap

AddOperation ==
  /\ status = "running"
  /\ \E node \in OperationIds \ DOMAIN cur.operation_by_id, func \in Funcs :
     \E args \in Arities(node) :
       LET r == add_operation(cur, node, args, func)
       IN /\ cur' = r.ret
          /\ last' = Call("call", r.self = cur)
  /\ UNCHANGED <<status, zeroRuns, age>>

ApplyMutations ==
  /\ status = "running"
  /\ \E mutation \in Mutations :
       LET r == apply_dependency_graph_mutations(cur, <<mutation>>)
       IN /\ cur' = r.ret
          /\ last' = Call("call", r.self = cur)
  /\ UNCHANGED <<status, zeroRuns, age>>

StateInsert ==
  /\ status = "running"
  /\ \E operation_id \in OperationIds, value \in InsertValues :
       /\ cur' = state_insert(cur, operation_id, value)
       /\ age' = Without(age, {operation_id})
  /\ last' = Call("call", last.kept)
  /\ UNCHANGED <<status, zeroRuns>>

StateConsumeMarked ==
  /\ status = "running"
  /\ \E marked_for_consumption \in SUBSET OperationIds :
       /\ cur' = state_consume_marked(cur, marked_for_consumption)
       /\ age' = Without(age, marked_for_consumption)
  /\ last' = Call("call", last.kept)
  /\ UNCHANGED <<status, zeroRuns>>

Step ==
  /\ status = "running"
  /\ \E nodeOrder \in NodeOrders(cur), edgeOrder \in EdgeOrders(cur) :
       LET r == step_execution(cur, nodeOrder, edgeOrder)
       IN /\ last' = [op |-> "step_execution",
                      kept |-> r.self = cur,
                      prev |-> [state |-> cur.state,
                                has_been_set |-> cur.has_been_set,
                                operation_by_id |-> cur.operation_by_id,
                                dependency_graph |-> cur.dependency_graph],
                      fired |-> r.fired,
                      filled |-> r.filled,
                      marked |-> r.marked,
                      invoked |-> r.invoked,
                      written |-> r.written]
          /\ zeroRuns' = [i \in OperationIds |->
                            IF i \in DOMAIN r.fired
                               /\ cur.operation_by_id[i].dependency_count = 0
                              THEN Min(zeroRuns[i] + 1, 2)
                              ELSE zeroRuns[i]]
          /\ IF r.panicked
               THEN /\ status' = "panicked"
                    /\ cur' = r.self
                    /\ age' = age
               ELSE /\ status' = status
                    /\ cur' = r.ret
                    /\ age' = [i \in (DOMAIN r.ret.state) \cap
                                     ((DOMAIN age) \cup (DOMAIN r.fired))
                                 |-> IF i \in DOMAIN r.fired THEN 0 ELSE 1]

Next ==
  \/ AddOperation
  \/ ApplyMutations
  \/ StateInsert
  \/ StateConsumeMarked
  \/ Step

\* the engine as its host drives it: operations are registered (an id is
\* registered once: an OperationId is never reused for another node), the
\* graph is edited, values are inserted into or removed from the store, and
\* the state is stepped
Spec == Init /\ [][Next]_vars

\* the host wires nodes by order-only edges
ApplyOrderOnlyMutations ==
  /\ status = "running"
  /\ \E mutation \in OrderOnlyMutations :
       LET r == apply_dependency_graph_mutations(cur, <<mutation>>)
       IN /\ cur' = r.ret
          /\ last' = Call("call", r.self = cur)
  /\ UNCHANGED <<status, zeroRuns, age>>

NextOrderOnly ==
  \/ AddOperation
  \/ ApplyOrderOnlyMutations
  \/ StateInsert
  \/ Step

\* the engine driven with graphs that hold order-only edges
SpecOrderOnly == Init /\ [][NextOrderOnly]_vars

\* A closed run of ticks over three nodes: a source (First) without
\* dependencies, a middle node (Last) and a sink (Third).  The host has
\* registered the three nodes and wired the middle node and the sink to the
\* first two, and from then on only steps the state.
Third == Last + 1

Wired(b, m, eb, em) ==
  LET s1 == add_operation(new, First, 0, "value").ret
      s2 == add_operation(s1, Last, b, "value").ret
      s3 == add_operation(s2, Third, m, "value").ret
  IN apply_dependency_graph_mutations(
       s3, <<Create(First, << >>), Create(Last, eb), Create(Third, em)>>).ret

InitTicks ==
  /\ \E b \in Arities(First), m \in Arities(Last) :
     \E eb \in DepLists(First), em \in DepLists(Last) :
       cur = Wired(b, m, eb, em)
  /\ status = "running"
  /\ last = Call("call", TRUE)
  /\ zeroRuns = [i \in OperationIds |-> 0]
  /\ age = EmptyMap

NextTicks == Step

SpecTicks == InitTicks /\ [][NextTicks]_vars

\* A closed run of ticks over the three nodes in which the body of the
\* middle node is of any kind (one that returns a value, one that returns
\* absence, one that fails) and the body of the sink returns a value or
\* fails.
BodyKinds == {"value", "none", "fail"}

SinkKinds == {"value", "fail"}

WiredWith(b, fb, m, fm, eb, em) ==
  LET s1 == add_operation(new, First, 0, "value").ret
      s2 == add_operation(s1, Last, b, fb).ret
      s3 == add_operation(s2, Third, m, fm).ret
  IN apply_dependency_graph_mutations(
       s3, <<Create(First, << >>), Create(Last, eb), Create(Third, em)>>).ret

InitBodies ==
  /\ \E b \in Arities(First), m \in Arities(Last) :
     \E fb \in BodyKinds, fm \in SinkKinds :
     \E eb \in DepLists(First), em \in DepLists(Last) :
       cur = WiredWith(b, fb, m, fm, eb, em)
  /\ status = "running"
  /\ last = Call("call", TRUE)
  /\ zeroRuns = [i \in OperationIds |-> 0]
  /\ age = EmptyMap

NextBodies == Step

SpecBodies == InitBodies /\ [][NextBodies]_vars

\* A closed run of ticks over the three nodes after the host has taken
\* entries out of the dependency-graph map again and has put a value under
\* the sink's id: the source and the sink can be without an entry of their
\* own (the source is then a node of the graph only while an edge set names
\* it, the sink, which no edge set names, is then no node at all).
Unkeyed == SUBSET {First, Third}

Rewired(b, m, eb, em, deleted, inserted) ==
  LET s == apply_dependency_graph_mutations(
             Wired(b, m, eb, em),
             SetToSeq({Delete(i) : i \in deleted})).ret
  IN IF inserted THEN state_insert(s, Third, Some(1)) ELSE s

InitKeys ==
  /\ \E b \in Arities(First), m \in Arities(Last) :
     \E eb \in DepLists(First), em \in DepLists(Last) :
     \E deleted \in Unkeyed, inserted \in BOOLEAN :
       cur = Rewired(b, m, eb, em, deleted, inserted)
  /\ status = "running"
  /\ last = Call("call", TRUE)
  /\ zeroRuns = [i \in OperationIds |-> 0]
  /\ age = EmptyMap

NextKeys == Step

SpecKeys == InitKeys /\ [][NextKeys]_vars

\* A closed run of ticks that counts its ticks.  The host has built one of
\* the wirings of the three nodes, or a linear chain of up to MaxChain nodes
\* (node 1 without dependencies, node j + 1 with the single dependency
\* (j, 0)), and from then on only steps the state.  last.tick is the number
\* of the tick last taken, MaxTicks standing for MaxTicks or more, and
\* last.seeded tells whether the host put a value under the id of one of
\* the nodes before the first tick; zeroRuns and age are not kept in these
\* runs.
MaxChain == 3

MaxTicks == MaxChain + 2

RECURSIVE Chain(_)
Chain(k) ==
  IF k = 1
    THEN apply_dependency_graph_mutations(
           add_operation(new, 1, 0, "value").ret, <<Create(1, << >>)>>).ret
    ELSE apply_dependency_graph_mutations(
           add_operation(Chain(k - 1), k, 1, "value").ret,
           <<Create(k, <<<<k - 1, 0>>>>)>>).ret

Wirings ==
  {Wired(b, m, eb, em) :
     b \in Arities(First), m \in Arities(Last),
     eb \in DepLists(First), em \in DepLists(Last)}
    \cup {Chain(k) : k \in 1 .. MaxChain}

Seeded(w) == {state_insert(w, i, Some(1)) : i \in DOMAIN w.operation_by_id}

InitRuns ==
  /\ \E w \in Wirings :
       \/ cur = w /\ last = Call("call", TRUE) @@ [tick |-> 0, seeded |-> FALSE]
       \/ cur \in Seeded(w)
            /\ last = Call("call", TRUE) @@ [tick |-> 0, seeded |-> TRUE]
  /\ status = "running"
  /\ zeroRuns = [i \in OperationIds |-> 0]
  /\ age = EmptyMap

Tick ==
  /\ status = "running"
  /\ \E nodeOrder \in NodeOrders(cur), edgeOrder \in EdgeOrders(cur) :
       LET r == step_execution(cur, nodeOrder, edgeOrder)
       IN /\ last' = [op |-> "step_execution",
                      kept |-> r.self = cur,
                      prev |-> [state |-> cur.state,
                                has_been_set |-> cur.has_been_set,
                                operation_by_id |-> cur.operation_by_id,
                                dependency_graph |-> cur.dependency_graph],
                      fired |-> r.fired,
                      filled |-> r.filled,
                      marked |-> r.marked,
                      invoked |-> r.invoked,
                      written |-> r.written,
                      tick |-> Min(last.tick + 1, MaxTicks),
                      seeded |-> last.seeded]
          /\ IF r.panicked
               THEN /\ status' = "panicked"
                    /\ cur' = r.self
               ELSE /\ status' = status
                    /\ cur' = r.ret
  /\ UNCHANGED <<zeroRuns, age>>

NextRuns == Tick

SpecRuns == InitRuns /\ [][NextRuns]_vars

\* A closed run of ticks over the three nodes in which the body of the
\* middle node returns a value or absence, from the empty store or from a
\* store with one inserted value.
PlainKinds == {"value", "none"}

InitAbsent ==
  /\ \E b \in Arities(First), m \in Arities(Last) :
     \E fb \in PlainKinds :
     \E eb \in DepLists(First), em \in DepLists(Last) :
       LET w == WiredWith(b, fb, m, "value", eb, em)
       IN cur \in {w} \cup Seeded(w)
  /\ status = "running"
  /\ last = Call("call", TRUE)
  /\ zeroRuns = [i \in OperationIds |-> 0]
  /\ age = EmptyMap

NextAbsent == Step

SpecAbsent == InitAbsent /\ [][NextAbsent]_vars

\* Branches of a state chain.  The operation table of a snapshot maps an id
\* to a shared cell (Rc<RefCell<OperationNode>>), and a clone of a snapshot
\* shares the cells of its origin; the store, has_been_set and the
\* dependency-graph map are persistent maps that a clone owns.  A snapshot
\* with cells is a state whose operation_by_id maps each id to the index of
\* its cell in `heap`, the sequence of all cells allocated so far.
Resolve(b, heap) ==
  [b EXCEPT !.operation_by_id = [i \in DOMAIN @ |-> heap[@[i]]]]

\* a state whose nodes are given in place, with one new cell per node
Share(s) ==
  LET ids == SetToSeq(DOMAIN s.operation_by_id)
  IN [heap |-> [j \in DOMAIN ids |-> s.operation_by_id[ids[j]]],
      snapshot |-> [s EXCEPT !.operation_by_id =
                      [i \in DOMAIN @ |->
                         CHOOSE j \in DOMAIN ids : ids[j] = i]]]

\* the outcome r of the step of a snapshot b, with the cells of b
Carried(r, b) ==
  [self |-> [r.self EXCEPT !.operation_by_id = b.operation_by_id],
   ret |-> [r.ret EXCEPT !.operation_by_id = b.operation_by_id],
   panicked |-> r.panicked,
   fired |-> r.fired]

\* variant: the caller's snapshot is advanced in place
StepShared_in_place(b, heap, nodeOrder, edgeOrder) ==
  LET c == Carried(step_execution(Resolve(b, heap), nodeOrder, edgeOrder), b)
  IN [c EXCEPT !.self = IF c.panicked THEN @ ELSE c.ret]

\* step_execution on a snapshot with cells: the new state is a clone (line
\* 177), so it refers to the cells of the state it was cloned from; the
\* cells are borrowed (line 184) and not written, so the heap stays as it
\* is
StepShared(b, heap, nodeOrder, edgeOrder) ==
  Carried(step_execution(Resolve(b, heap), nodeOrder, edgeOrder), b)

\* variant: a node that is registered already is replaced inside its cell
AddShared_in_cell(b, heap, node, args, func) ==
  LET op_node == [dependency_count |-> args, func |-> func]
  IN IF node \in DOMAIN b.operation_by_id
       THEN [self |-> b, ret |-> b,
             heap |-> [heap EXCEPT ![b.operation_by_id[node]] = op_node]]
       ELSE [self |-> b,
             ret |-> [b EXCEPT !.operation_by_id = With(@, node, Len(heap) + 1)],
             heap |-> Append(heap, op_node)]

\* add_operation on a snapshot with cells: the node goes into a new cell
\* (Rc::new at line 142) that the clone's table refers to
AddShared(b, heap, node, args, func) ==
  [self |-> b,
   ret |-> [b EXCEPT !.operation_by_id = With(@, node, Len(heap) + 1)],
   heap |-> Append(heap, [dependency_count |-> args, func |-> func])]

\* apply_dependency_graph_mutations on a snapshot with cells
MutateShared(b, heap, mutations) ==
  LET r == apply_dependency_graph_mutations(Resolve(b, heap), mutations)
  IN [self |-> [r.self EXCEPT !.operation_by_id = b.operation_by_id],
      ret |-> [r.ret EXCEPT !.operation_by_id = b.operation_by_id]]

\* The host holds a snapshot (cur.ancestor), steps it some ticks, then steps
\* it twice and keeps the two results as branches (cur.left, cur.right,
\* each a sequence holding the branch once it exists), and goes on with up
\* to MaxMoves calls on the branches.  last.before: what the host read from
\* the three snapshots before the call (before the first of the two calls
\* of the fork); last.side: the branch the call was made on; last.unfired:
\* the nodes without dependencies of the ancestor's graph that had never
\* been set at the fork; zeroRuns[side][i]: how often the body of a node
\* without dependencies under id i has run on that branch, the fork
\* included.
MaxMoves == 2

Sides == {"left", "right"}

BranchMutations == {Delete(First), Create(Last, <<<<First, 0>>>>)}

Observed(b, heap) ==
  LET s == Resolve(b, heap)
  IN [state |-> s.state, has_been_set |-> s.has_been_set,
      dependency_graph |-> s.dependency_graph,
      operation_by_id |-> s.operation_by_id]

ObservedAll(c) ==
  [ancestor |-> Observed(c.ancestor, c.heap),
   left |-> [j \in DOMAIN c.left |-> Observed(c.left[j], c.heap)],
   right |-> [j \in DOMAIN c.right |-> Observed(c.right[j], c.heap)]]

Branch(side) == IF side = "left" THEN cur.left[1] ELSE cur.right[1]

WithBranch(c, side, b) ==
  IF side = "left" THEN [c EXCEPT !.left = <<b>>] ELSE [c EXCEPT !.right = <<b>>]

\* the nodes without dependencies among the ids that fired
ZeroOf(b, heap, fired) ==
  {i \in DOMAIN fired : Resolve(b, heap).operation_by_id[i].dependency_count = 0}

Moved(name, side) ==
  [op |-> name, side |-> side, before |-> ObservedAll(cur),
   moves |-> last.moves + 1, unfired |-> last.unfired]

InitBranches ==
  /\ \E k \in 1 .. MaxChain :
     \E s \in {Chain(k)} \cup Seeded(Chain(k)) :
       cur = [heap |-> Share(s).heap, ancestor |-> Share(s).snapshot,
              left |-> << >>, right |-> << >>]
  /\ status = "running"
  /\ last = [op |-> "call", side |-> "none", before |-> ObservedAll(cur),
             moves |-> 0, unfired |-> {}]
  /\ zeroRuns = [side \in Sides |-> [i \in 1 .. MaxChain |-> 0]]
  /\ age = EmptyMap

\* the host steps the snapshot it holds and goes on with the result
Advanced(r) ==
  /\ ~r.panicked
  /\ r.ret # cur.ancestor
  /\ cur' = [cur EXCEPT !.ancestor = r.ret]
  /\ last' = [last EXCEPT !.op = "advance", !.before = ObservedAll(cur)]
  /\ UNCHANGED <<status, zeroRuns, age>>

Advance ==
  /\ status = "running"
  /\ cur.left = << >>
  /\ \E nodeOrder \in NodeOrders(Resolve(cur.ancestor, cur.heap)),
        edgeOrder \in EdgeOrders(Resolve(cur.ancestor, cur.heap)) :
       Advanced(StepShared(cur.ancestor, cur.heap, nodeOrder, edgeOrder))

\* the nodes without dependencies that ran in a step of b that fired `fired`
ZeroRan(b, fired) ==
  [i \in 1 .. MaxChain |->
     IF i \in ZeroOf(b, cur.heap, fired) THEN 1 ELSE 0]

\* the host steps the snapshot it holds and keeps the result as the left
\* branch
ForkedLeft(r, nodeOrder, edgeOrder) ==
  /\ ~r.panicked
  /\ cur' = [cur EXCEPT !.ancestor = r.self, !.left = <<r.ret>>]
  /\ zeroRuns' = [zeroRuns EXCEPT !["left"] = ZeroRan(cur.ancestor, r.fired)]
  /\ last' = [op |-> "step_execution", side |-> "none",
              before |-> ObservedAll(cur), moves |-> 0,
              nodeOrder |-> nodeOrder, edgeOrder |-> edgeOrder,
              unfired |->
                {i \in DOMAIN cur.ancestor.operation_by_id :
                   /\ cur.heap[cur.ancestor.operation_by_id[i]]
                        .dependency_count = 0
                   /\ i \in get_dependency_graph(cur.ancestor).nodes
                   /\ i \notin cur.ancestor.has_been_set}]
  /\ UNCHANGED <<status, age>>

ForkLeft ==
  /\ status = "running"
  /\ cur.left = << >>
  /\ \E nodeOrder \in NodeOrders(Resolve(cur.ancestor, cur.heap)),
        edgeOrder \in EdgeOrders(Resolve(cur.ancestor, cur.heap)) :
       ForkedLeft(StepShared(cur.ancestor, cur.heap, nodeOrder, edgeOrder),
                  nodeOrder, edgeOrder)

\* the host steps the same snapshot a second time and keeps the result as
\* the right branch: the call is made on the snapshot as the first call left
\* it, and it iterates the same maps of the same snapshot, so it meets the
\* nodes and the edges in the order the first call met them
ForkedRight(r) ==
  /\ cur' = [cur EXCEPT !.ancestor = r.self, !.right = <<r.ret>>]
  /\ zeroRuns' = [zeroRuns EXCEPT !["right"] = ZeroRan(cur.ancestor, r.fired)]
  /\ status' = IF r.panicked THEN "panicked" ELSE status
  /\ last' = [op |-> "fork", side |-> "none", before |-> last.before,
              moves |-> 0, unfired |-> last.unfired]
  /\ age' = age

ForkRight ==
  /\ status = "running"
  /\ cur.left # << >>
  /\ cur.right = << >>
  /\ ForkedRight(StepShared(cur.ancestor, cur.heap,
                            last.nodeOrder, last.edgeOrder))

BranchStepped(r, side) ==
  /\ last' = Moved("step_execution", side)
  /\ zeroRuns' =
       [zeroRuns EXCEPT ![side] =
          [i \in 1 .. MaxChain |->
             IF i \in ZeroOf(Branch(side), cur.heap, r.fired)
               THEN Min(@[i] + 1, 2) ELSE @[i]]]
  /\ status' = IF r.panicked THEN "panicked" ELSE status
  /\ cur' = WithBranch(cur, side, IF r.panicked THEN r.self ELSE r.ret)
  /\ age' = age

StepBranch ==
  /\ status = "running"
  /\ cur.right # << >>
  /\ last.moves < MaxMoves
  /\ \E side \in Sides :
     \E nodeOrder \in NodeOrders(Resolve(Branch(side), cur.heap)),
        edgeOrder \in EdgeOrders(Resolve(Branch(side), cur.heap)) :
       BranchStepped(StepShared(Branch(side), cur.heap, nodeOrder, edgeOrder),
                     side)

InsertBranch ==
  /\ status = "running"
  /\ cur.right # << >>
  /\ last.moves < MaxMoves
  /\ \E side \in Sides, value \in InsertValues :
       /\ cur' = WithBranch(cur, side, state_insert(Branch(side), First, value))
       /\ last' = Moved("state_insert", side)
  /\ UNCHANGED <<status, zeroRuns, age>>

\* the host registers a node on a branch and goes on with the returned
\* state as that branch
AddOperationBranch ==
  /\ status = "running"
  /\ cur.right # << >>
  /\ last.moves < MaxMoves
  /\ \E side \in Sides, args \in Arities(First) :
       LET r == AddShared(Branch(side), cur.heap, First, args, "value")
       IN /\ cur' = WithBranch([cur EXCEPT !.heap = r.heap], side, r.ret)
          /\ last' = Moved("add_operation", side)
  /\ UNCHANGED <<status, zeroRuns, age>>

MutateBranch ==
  /\ status = "running"
  /\ cur.right # << >>
  /\ last.moves < MaxMoves
  /\ \E side \in Sides, mutation \in BranchMutations :
       LET r == MutateShared(Branch(side), cur.heap, <<mutation>>)
       IN /\ cur' = WithBranch(cur, side, r.ret)
          /\ last' = Moved("apply_dependency_graph_mutations", side)
  /\ UNCHANGED <<status, zeroRuns, age>>

NextBranches ==
  \/ Advance
  \/ ForkLeft
  \/ ForkRight
  \/ StepBranch
  \/ InsertBranch
  \/ AddOperationBranch
  \/ MutateBranch

SpecBranches == InitBranches /\ [][NextBranches]_vars

\* apply_dependency_graph_mutations as a function of its inputs: a state
\* and a list of mutations.  The map does not look into the pairs it
\* stores, so the lists are built over three pairs, two of them with the
\* same source; the vectors of the last id list them in any order and with
\* repetitions.
MutationPairs == {<<First, 0>>, <<First, 1>>, <<Last, 0>>}

MutationVecs(i) ==
  IF i = First THEN {<< >>, <<<<Last, 0>>>>}
  ELSE {<< >>} \cup {<<p>> : p \in MutationPairs}
               \cup {<<p, q>> : p \in MutationPairs, q \in MutationPairs}

ListMutations ==
  UNION {{Create(i, v) : v \in MutationVecs(i)} : i \in OperationIds}
    \cup {Delete(i) : i \in OperationIds}

MutationLists ==
  {<< >>} \cup {<<m>> : m \in ListMutations}
          \cup {<<m, n>> : m \in ListMutations, n \in ListMutations}

\* the states the list is applied to: nothing registered and nothing stored,
\* or both ids registered and holding a value; each id without an entry in
\* the dependency-graph map or with one of the edge sets
Populated ==
  LET s1 == add_operation(new, First, 0, "value").ret
      s2 == add_operation(s1, Last, 1, "value").ret
  IN state_insert(state_insert(s2, First, Some(1)), Last, Some(1))

Entries(i) ==
  {<< >>} \cup {<<Create(i, v)>> : v \in {w \in MutationVecs(i) : Sorted(w)}}

InputStates ==
  {apply_dependency_graph_mutations(b, p \o q).ret :
     b \in {new, Populated}, p \in Entries(First), q \in Entries(Last)}

\* last.input: the state the list was drawn for; last.pending: the
\* mutations not yet passed; last.calls: the lists passed so far, one per
\* call; last.before: the state the latest call was made on
InitMutations ==
  /\ cur \in InputStates
  /\ \E mutations \in MutationLists :
       last = [op |-> "input", kept |-> TRUE, input |-> cur, before |-> cur,
               pending |-> mutations, calls |-> << >>]
  /\ status = "running"
  /\ zeroRuns = [i \in OperationIds |-> 0]
  /\ age = EmptyMap

\* one call of apply_dependency_graph_mutations, with the whole of the
\* pending list or with a prefix of it
ApplyMutationList ==
  /\ status = "running"
  /\ \E k \in 0 .. Len(last.pending) :
       /\ k = 0 => last.calls = << >>
       /\ k = 0 => last.pending = << >>
       /\ LET mutations == SubSeq(last.pending, 1, k)
              r == apply_dependency_graph_mutations(cur, mutations)
          IN /\ cur' = r.ret
             /\ last' = [op |-> "apply_dependency_graph_mutations",
                         kept |-> r.self = cur,
                         input |-> last.input,
                         before |-> cur,
                         pending |-> SubSeq(last.pending, k + 1,
                                            Len(last.pending)),
                         calls |-> Append(last.calls, mutations)]
  /\ UNCHANGED <<status, zeroRuns, age>>

NextMutations == ApplyMutationList

SpecMutations == InitMutations /\ [][NextMutations]_vars

\* get_dependency_graph as a function of its input: a state whose map
\* holds, for each of three ids, no entry or one of the edge sets.
GraphStates ==
  {apply_dependency_graph_mutations(b, (p \o q) \o t).ret :
     b \in {new, Populated},
     p \in Entries(First), q \in Entries(Last), t \in Entries(Third)}

InitGraphs ==
  /\ cur \in GraphStates
  /\ last = [op |-> "input", kept |-> TRUE, before |-> cur,
             graph |-> EmptyGraph]
  /\ status = "running"
  /\ zeroRuns = [i \in OperationIds |-> 0]
  /\ age = EmptyMap

\* last.graph: the graph the call returned; last.before: the state it was
\* called on
GetDependencyGraph ==
  /\ status = "running"
  /\ last.op = "input"
  /\ cur' = cur
  /\ last' = [op |-> "get_dependency_graph", kept |-> TRUE, before |-> cur,
              graph |-> get_dependency_graph(cur)]
  /\ UNCHANGED <<status, zeroRuns, age>>

NextGraphs == GetDependencyGraph

SpecGraphs == InitGraphs /\ [][NextGraphs]_vars

\* state_insert as a function of its inputs: a state, an id and a value,
\* followed by a second value for the same id.  The states hold, under each
\* id, nothing, an absent value or a present one, and ids whose value has
\* been consumed (f maps an id to None when nothing is inserted under it and
\* to Some(x) when x is).
PresentValues == {Some(n) : n \in 1 .. MaxVal}

RECURSIVE InsertAll(_, _, _)
InsertAll(s, ids, f) ==
  IF ids = << >> THEN s
  ELSE InsertAll(IF f[Head(ids)] = None THEN s
                 ELSE state_insert(s, Head(ids), f[Head(ids)][1]),
                 Tail(ids), f)

StoreStates ==
  {state_consume_marked(InsertAll(new, SetToSeq(OperationIds), f), c) :
     f \in [OperationIds ->
              {None} \cup {Some(x) : x \in {None} \cup PresentValues}],
     c \in SUBSET OperationIds}

\* last.operation_id, last.pending: the id and the values still to be
\* inserted under it; last.value: the value the latest call inserted;
\* last.before: the state that call was made on
InitInserts ==
  /\ cur \in StoreStates
  /\ \E i \in OperationIds, v \in PresentValues, v2 \in PresentValues :
       last = [op |-> "input", operation_id |-> i, value |-> None,
               before |-> cur, pending |-> <<v, v2>>]
  /\ status = "running"
  /\ zeroRuns = [i \in OperationIds |-> 0]
  /\ age = EmptyMap

InsertPending ==
  /\ status = "running"
  /\ last.pending # << >>
  /\ cur' = state_insert(cur, last.operation_id, Head(last.pending))
  /\ last' = [op |-> "state_insert", operation_id |-> last.operation_id,
              value |-> Head(last.pending), before |-> cur,
              pending |-> Tail(last.pending)]
  /\ UNCHANGED <<status, zeroRuns, age>>

NextInserts == InsertPending

SpecInserts == InitInserts /\ [][NextInserts]_vars

\* ------------------------------------------------------------ code_cell
\* cells/code_cell.rs.  A CodeCell is modelled by its language and by the
\* report the static analysis builds from its source (the three collections
\* the function reads, as sets of names); a signature by the maps the
\* function inserts into.
Languages == {"PyO3", "Starlark", "Deno"}

Names == {"x", "y"}

Reports ==
  [cell_depended_values : SUBSET Names,
   cell_exposed_values : SUBSET Names,
   triggerable_functions : SUBSET Names]

CodeCells == [language : Languages, report : Reports]

\* InputSignature::new(), OutputSignature::new()
NewInputSignature == [globals |-> EmptyMap]

NewOutputSignature == [globals |-> EmptyMap, functions |-> EmptyMap]

\* a loop that inserts `item` under every key of a collection
RECURSIVE InsertEach(_, _, _)
InsertEach(map, keys, item) ==
  IF keys = << >> THEN map
  ELSE InsertEach(With(map, Head(keys), item), Tail(keys), item)

\* variant: the triggerable functions are left out of the signature
Analysed_no_functions(report, func) ==
  [input_signature |->
     [NewInputSignature EXCEPT !.globals =
        InsertEach(@, SetToSeq(report.cell_depended_values),
                   [ty |-> Some("String"), default |-> None])],
   output_signature |->
     [NewOutputSignature EXCEPT !.globals =
        InsertEach(@, SetToSeq(report.cell_exposed_values),
                   [ty |-> Some("String")])],
   func |-> func]

\* lines 18-66 and 81-137: the node of a cell with an analysed source
Analysed(report, func) ==
  [input_signature |->
     [NewInputSignature EXCEPT !.globals =
        InsertEach(@, SetToSeq(report.cell_depended_values),
                   [ty |-> Some("String"), default |-> None])],
   output_signature |->
     [NewOutputSignature EXCEPT
        !.globals =
          InsertEach(@, SetToSeq(report.cell_exposed_values),
                     [ty |-> Some("String")]),
        !.functions =
          InsertEach(@, SetToSeq(report.triggerable_functions),
                     [ty |-> Some("Function")])],
   func |-> func]

\* variant: the node of a cell without backend echoes nothing
Passthrough_silent ==
  [input_signature |-> NewInputSignature,
   output_signature |-> NewOutputSignature,
   func |-> "silent"]

\* lines 68-73
Passthrough ==
  [input_signature |-> NewInputSignature,
   output_signature |-> NewOutputSignature,
   func |-> "passthrough"]

code_cell(cell) ==
  CASE cell.language = "PyO3" -> Analysed(cell.report, "python")
    [] cell.language = "Starlark" -> Passthrough
    [] cell.language = "Deno" -> Analysed(cell.report, "deno")

\* what a body is given and what a backend can hand back
Payloads == {<<0>>, <<1>>}

\* the outcomes of one invocation of a body on x: the passthrough closure
\* of line 72 returns x; the closures of lines 53-65 and 116-136 return
\* what the backend returns and fail when it reports an error
Invoke(func, x) ==
  CASE func = "passthrough" -> {[ok |-> TRUE, result |-> x]}
    [] func = "silent" -> {[ok |-> TRUE, result |-> None]}
    [] OTHER -> {[ok |-> TRUE, result |-> y] : y \in Payloads}
                  \cup {[ok |-> FALSE, result |-> None]}

\* last.cell: the cell; last.node: the node code_cell returned for it;
\* last.x, last.outcome: the latest invocation of the node's body
InitCells ==
  /\ \E cell \in CodeCells :
       last = [op |-> "input", cell |-> cell]
  /\ cur = new
  /\ status = "running"
  /\ zeroRuns = [i \in OperationIds |-> 0]
  /\ age = EmptyMap

CodeCell ==
  /\ last.op = "input"
  /\ last' = [op |-> "code_cell", cell |-> last.cell,
              node |-> code_cell(last.cell)]
  /\ UNCHANGED <<cur, status, zeroRuns, age>>

InvokeBody ==
  /\ last.op = "code_cell"
  /\ \E x \in Payloads : \E outcome \in Invoke(last.node.func, x) :
       last' = [op |-> "invoke", cell |-> last.cell, node |-> last.node,
                x |-> x, outcome |-> outcome]
  /\ UNCHANGED <<cur, status, zeroRuns, age>>

NextCells == CodeCell \/ InvokeBody

SpecCells == InitCells /\ [][NextCells]_vars

\* ------------------------------------------------------------- sdk/md.rs
\* extract_code_blocks(body: &str) -> Vec<MarkdownCodeBlock>.  A string is
\* modelled as the sequence of its characters, offsets count from 0 as in
\* the code, and s[a..b] is Slice(s, a, b).
Slice(s, a, b) == SubSeq(s, a + 1, b)

From(s, a) == Slice(s, a, Len(s))

\* the backquote character, which a string of this language cannot hold
Backquote == "backquote"

Fence == <<Backquote, Backquote, Backquote>>

Whitespace == {" ", "\n"}

\* str::find of the fence: the offset of its first occurrence
find(s) ==
  LET hits == {i \in 0 .. (Len(s) - Len(Fence)) :
                 Slice(s, i, i + Len(Fence)) = Fence}
  IN IF hits = {} THEN None
     ELSE Some(CHOOSE i \in hits : \A j \in hits : i <= j)

RECURSIVE trim_start(_)
trim_start(s) ==
  IF s # << >> /\ Head(s) \in Whitespace THEN trim_start(Tail(s)) ELSE s

RECURSIVE trim_end(_)
trim_end(s) ==
  IF s # << >> /\ s[Len(s)] \in Whitespace
    THEN trim_end(Slice(s, 0, Len(s) - 1)) ELSE s

trim(s) == trim_end(trim_start(s))

\* the length of the longest prefix of s without a character of stops
RECURSIVE Run(_, _)
Run(s, stops) ==
  IF s = << >> \/ Head(s) \in stops THEN 0 ELSE 1 + Run(Tail(s), stops)

\* str::lines: the lines without their terminators; a final empty line is
\* not a line
RECURSIVE lines(_)
lines(s) ==
  IF s = << >> THEN << >>
  ELSE LET n == Run(s, {"\n"})
       IN <<Slice(s, 0, n)>> \o lines(From(s, Min(n + 1, Len(s))))

\* join("\n")
RECURSIVE join(_)
join(ls) ==
  IF ls = << >> THEN << >>
  ELSE IF Len(ls) = 1 THEN ls[1]
  ELSE ls[1] \o <<"\n">> \o join(Tail(ls))

RECURSIVE split_whitespace(_)
split_whitespace(s) ==
  LET t == trim_start(s)
  IN IF t = << >> THEN << >>
     ELSE <<Slice(t, 0, Run(t, Whitespace))>>
            \o split_whitespace(From(t, Run(t, Whitespace)))

strip_prefix(s, c) == IF s # << >> /\ Head(s) = c THEN Some(Tail(s)) ELSE None

strip_suffix(s, c) ==
  IF s # << >> /\ s[Len(s)] = c THEN Some(Slice(s, 0, Len(s) - 1)) ELSE None

\* lines 41-59: the block between an opening fence that ends before offset
\* start and the closing fence that begins end_of_code characters later
MarkdownCodeBlock(body, start, end_of_code) ==
  LET code == lines(trim(Slice(body, start, start + end_of_code)))
      first_line == IF code = << >> THEN << >> ELSE Head(code)
      tag_and_name == split_whitespace(first_line)
      inner == IF Len(tag_and_name) < 2 THEN None
               ELSE strip_prefix(tag_and_name[2], "(")
  IN [tag |-> IF tag_and_name = << >> THEN << >> ELSE tag_and_name[1],
      name |-> IF inner = None THEN None ELSE strip_suffix(inner[1], ")"),
      body |-> IF code = << >> THEN << >> ELSE join(Tail(code)),
      range |-> [start |-> start, end |-> start + end_of_code]]

\* lines 37-66: one iteration of the while loop, from the test of its
\* condition; done tells that the loop has been left
Scan(body, start, code_blocks) ==
  LET opening == find(From(body, start))
  IN IF opening = None
       THEN [start |-> start, code_blocks |-> code_blocks, done |-> TRUE]
     ELSE LET s1 == start + opening[1] + 3
              closing == find(From(body, s1))
          IN IF closing = None
               THEN [start |-> s1, code_blocks |-> code_blocks, done |-> TRUE]
             ELSE [start |-> s1 + closing[1] + 3,
                   code_blocks |->
                     Append(code_blocks,
                            MarkdownCodeBlock(body, s1, closing[1])),
                   done |-> FALSE]

\* The documents of the model: up to MaxFences fences with one of the
\* segments before, between and after them.
MaxFences == 3

Segments ==
  {<< >>,
   <<"a">>,
   <<" ">>,
   <<Backquote>>,
   <<"a", "\n", "b", "\n">>,
   <<"\n", "b", "\n">>,
   <<"a", " ", "(", "b", ")", "\n", "c", "\n">>,
   <<"a", " ", "b", ")", "\n", "\n", "c">>}

RECURSIVE Documents(_)
Documents(n) ==
  IF n = 0 THEN Segments
  ELSE {d \o Fence \o t : d \in Documents(n - 1), t \in Segments}

\* cur: the function's locals (body, start, code_blocks) and whether the
\* loop has been left; last.start: the value of start before the last
\* iteration
InitBlocks ==
  /\ \E n \in 0 .. MaxFences : \E body \in Documents(n) :
       cur = [body |-> body, start |-> 0, code_blocks |-> << >>,
              done |-> FALSE]
  /\ status = "running"
  /\ last = [op |-> "call", start |-> 0]
  /\ zeroRuns = [i \in OperationIds |-> 0]
  /\ age = EmptyMap

ExtractCodeBlocks ==
  /\ ~cur.done
  /\ cur' = [body |-> cur.body] @@ Scan(cur.body, cur.start, cur.code_blocks)
  /\ last' = [op |-> "extract_code_blocks", start |-> cur.start]
  /\ UNCHANGED <<status, zeroRuns, age>>

NextBlocks == ExtractCodeBlocks

SpecBlocks == InitBlocks /\ [][NextBlocks]_vars

\* ------------------------------------------------------------- vocabulary
\* the last call was a step_execution that returned cur
Stepped == last.op = "step_execution" /\ status = "running"

\* the state that step was called on (a step keeps the operation table and
\* the dependency-graph map)
Prev ==
  [cur EXCEPT !.state = last.prev.state,
              !.has_been_set = last.prev.has_been_set]

Graph == get_dependency_graph(cur)

DependencyCount(n) == cur.operation_by_id[n].dependency_count

\* the sources whose value some node read through an incoming edge in the
\* last tick: the node scanned its edges and the source held a value
ReadSources ==
  {s \in DOMAIN last.prev.state :
     \E n \in DOMAIN last.filled : s \in Incoming(Graph, n)}

AllSlots(n) == 0 .. (DependencyCount(n) - 1)

\* ------------------------------------------------------------------ C1
\* node A: no dependencies, returns 1; node B: one dependency, an edge from
\* A at slot 0, returns its input plus 1
ScenarioAB ==
  /\ cur.operation_by_id =
       [i \in {First, Last} |->
          IF i = First THEN [dependency_count |-> 0, func |-> "value"]
          ELSE [dependency_count |-> 1, func |-> "value"]]
  /\ Last \in DOMAIN cur.dependency_graph
  /\ cur.dependency_graph[Last] = {<<First, 0>>}
  /\ First \in DOMAIN cur.dependency_graph => cur.dependency_graph[First] = {}

\* C1: from the fresh state (empty store, nothing ever set) of the A/B
\* scenario the first step fires A alone and leaves the store {A = 1}; the
\* step taken from that state fires B alone on the argument 1 and leaves the
\* store {B = 2}.
C1_ScenarioTwoTicks ==
  (Stepped /\ ScenarioAB) =>
    /\ (last.prev.state = EmptyMap /\ last.prev.has_been_set = {}) =>
         /\ DOMAIN last.fired = {First}
         /\ DOMAIN cur.state = {First}
         /\ cur.state[First] = Some(1)
         /\ cur.has_been_set = {First}
    /\ (/\ DOMAIN last.prev.state = {First}
        /\ last.prev.state[First] = Some(1)
        /\ last.prev.has_been_set = {First}) =>
         /\ DOMAIN last.fired = {Last}
         /\ last.fired[Last] = <<Some(1)>>
         /\ DOMAIN cur.state = {Last}
         /\ cur.state[Last] = Some(2)

C1_Witness ==
  /\ Stepped /\ ScenarioAB
  /\ DOMAIN last.prev.state = {First}
  /\ last.prev.has_been_set = {First}
  /\ DOMAIN cur.state = {Last}
  /\ cur.state[Last] = Some(2)

\* ------------------------------------------------------------------ C2
\* C2: along the chain the body of a node without dependencies is invoked
\* at most once.
C2_ZeroArityRunsOnce == \A i \in OperationIds : zeroRuns[i] <= 1

\* a step skipped a zero-dependency node that had run and whose value had
\* already been evicted
C2_Witness ==
  /\ Stepped
  /\ \E i \in Graph.nodes :
       /\ DependencyCount(i) = 0
       /\ zeroRuns[i] = 1
       /\ i \in last.prev.has_been_set
       /\ i \notin DOMAIN last.prev.state
       /\ i \notin DOMAIN last.fired

\* ------------------------------------------------------------------ C3
\* C3: in a completed step, a node with N > 0 dependencies whose body was
\* invoked had each of its slots 0..N-1 written in that tick.
C3_FiresOnlyWithAllSlots ==
  Stepped =>
    \A n \in DOMAIN last.fired :
      DependencyCount(n) > 0 => last.filled[n] = AllSlots(n)

\* ------------------------------------------------------------------ C4
\* C4: every source read through an incoming edge in a tick is absent from
\* the store the step returns.
C4_ReadSourcesEvicted ==
  Stepped => \A s \in ReadSources : s \notin DOMAIN cur.state

\* a node read a source, stayed short of its inputs and did not fire
C4_Witness ==
  /\ Stepped
  /\ \E n \in DOMAIN last.filled :
       /\ n \notin DOMAIN last.fired
       /\ \E s \in ReadSources : s \in Incoming(Graph, n) /\ s # n

\* ------------------------------------------------------------------ C5
\* C5: every argument a fired node received is a value of the previous
\* state's store, read over an edge to that slot; slots no edge wrote are
\* absent; a node with dependencies fires on previous values only.
C5_ArgumentsFromPreviousState ==
  last.op = "step_execution" =>
    \A n \in DOMAIN last.fired :
      /\ DependencyCount(n) > 0 => last.filled[n] # {}
      /\ \A k \in 0 .. (Len(last.fired[n]) - 1) :
           IF k \in last.filled[n]
             THEN \E s \in DOMAIN last.prev.state :
                    /\ <<s, k>> \in cur.dependency_graph[n]
                    /\ last.fired[n][k + 1] = last.prev.state[s]
             ELSE last.fired[n][k + 1] = None

\* a producer fired in the tick and its consumer, having nothing to read in
\* the previous state, did not
C5_Witness ==
  /\ Stepped
  /\ \E a \in DOMAIN last.fired, b \in Graph.nodes :
       /\ a # b
       /\ a \in Incoming(Graph, b)
       /\ a \notin DOMAIN last.prev.state
       /\ b \notin DOMAIN last.fired
       /\ DependencyCount(b) = 1

\* ------------------------------------------------------------------ C6
\* what a call of step_execution gives its caller
Outcome(r) ==
  IF r.panicked THEN [panicked |-> TRUE]
  ELSE [panicked |-> FALSE, ret |-> r.ret, fired |-> r.fired,
        marked |-> r.marked]

\* C6: the step that was just taken gives the same outcome under every order
\* in which the nodes of the graph can be traversed.
C6_NodeOrderIrrelevant ==
  last.op = "step_execution" =>
    \A edgeOrder \in EdgeOrders(Prev) :
      \A o1, o2 \in NodeOrders(Prev) :
        Outcome(step_execution(Prev, o1, edgeOrder)) =
          Outcome(step_execution(Prev, o2, edgeOrder))

\* two nodes, one feeding the other, were traversed and the producer fired
C6_Witness ==
  /\ Stepped
  /\ Cardinality(NodeOrders(Prev)) >= 2
  /\ \E a \in DOMAIN last.fired, b \in DOMAIN last.filled :
       a # b /\ a \in Incoming(Graph, b)

C8_NoOutputOutlivesItsTick == \A i \in DOMAIN age : age[i] = 0

\* C8 amended: a node output that is still in the store after a later tick
\* was not read through any incoming edge in that tick, and is unchanged;
\* an output that an edge reads is gone from the store that tick returns.
C8_OnlyUnreadOutputsSurvive ==
  Stepped =>
    \A i \in DOMAIN age :
      age[i] = 1 =>
        /\ i \notin ReadSources
        /\ i \in DOMAIN last.prev.state
        /\ cur.state[i] = last.prev.state[i]

\* one output was read and evicted while another, unread, stayed
C8_Witness ==
  /\ Stepped
  /\ \E i \in DOMAIN age : age[i] = 1
  /\ \E s \in ReadSources : s \notin DOMAIN cur.state

\* ------------------------------------------------------------------ C9
\* C9: after a step the store holds, under the id of every node whose body
\* was invoked, the result of that invocation.
C9_FiredResultStored ==
  Stepped =>
    \A n \in DOMAIN last.fired :
      /\ n \in DOMAIN cur.state
      /\ cur.state[n] = execute(cur.operation_by_id[n], last.fired[n]).result

\* ------------------------------------------------------------------ C10
\* C10: a node with N > 0 dependencies that scanned its edges produces an
\* output in exactly the ticks in which all N slots were written from the
\* previous state.
C10_OutputIffAllSlotsFilled ==
  Stepped =>
    \A n \in DOMAIN last.filled :
      DependencyCount(n) > 0 =>
        (n \in DOMAIN last.fired <=> last.filled[n] = AllSlots(n))

\* ------------------------------------------------------------------ C11
\* every node of the graph is registered and every node other than n is
\* wired on slots within its dependency count: no node other than n can
\* abort the tick
OthersInRange(n) ==
  /\ Graph.nodes \subseteq DOMAIN cur.operation_by_id
  /\ \A e \in DOMAIN Graph.weight :
       e[2] # n =>
         \A k \in DOMAIN Graph.weight[e] :
           Graph.weight[e][k] < DependencyCount(e[2])

\* C11: a step taken on a state whose graph holds a registered node with no
\* dependencies that was never set completes, invokes the body of that node
\* with the empty argument list and stores its result, whatever edges lead
\* into the node.
C11_ZeroArityAlwaysFires ==
  last.op = "step_execution" =>
    \A n \in Graph.nodes \cap DOMAIN cur.operation_by_id :
      (/\ DependencyCount(n) = 0
       /\ n \notin last.prev.has_been_set
       /\ OthersInRange(n)) =>
        /\ status = "running"
        /\ n \in DOMAIN last.fired
        /\ last.fired[n] = << >>
        /\ n \in DOMAIN cur.state
        /\ cur.state[n] = execute(cur.operation_by_id[n], << >>).result

\* ------------------------------------------------------------------ C12
\* every node of the graph is registered and every index of every edge,
\* the order-only index aside, is a slot of the node the edge leads into
InRangeButOrderOnly ==
  /\ Graph.nodes \subseteq DOMAIN cur.operation_by_id
  /\ \A e \in DOMAIN Graph.weight :
       \A k \in DOMAIN Graph.weight[e] :
         \/ Graph.weight[e][k] = ORDER_ONLY
         \/ Graph.weight[e][k] < DependencyCount(e[2])

\* the slots of n that a value edge with a valued source writes
ValueSlots(n) ==
  {i \in AllSlots(n) :
     \E s \in Incoming(Graph, n) \cap DOMAIN last.prev.state :
       \E k \in DOMAIN Graph.weight[<<s, n>>] : Graph.weight[<<s, n>>][k] = i}

\* the order-only edges whose source held a value when the step was called
ValuedOrderOnlyEdges ==
  {e \in DOMAIN Graph.weight :
     /\ e[1] \in DOMAIN last.prev.state
     /\ \E k \in DOMAIN Graph.weight[e] : Graph.weight[e][k] = ORDER_ONLY}

\* C12: a step taken on a state in which the source of an order-only edge
\* holds a value completes, and the slots written for the dependent node are
\* those of its value edges only.
C12_OrderOnlyTransfersNothing ==
  (last.op = "step_execution" /\ InRangeButOrderOnly) =>
    \A e \in ValuedOrderOnlyEdges :
      /\ status = "running"
      /\ e[2] \in DOMAIN last.filled => last.filled[e[2]] \subseteq ValueSlots(e[2])

\* ------------------------------------------------------------------ C13
\* A without dependencies, B depending on A, M depending on A at one of its
\* two slots and on B at the other
ScenarioABM ==
  /\ DOMAIN cur.operation_by_id = {First, Last, Third}
  /\ DependencyCount(First) = 0
  /\ DependencyCount(Last) = 1
  /\ DependencyCount(Third) = 2
  /\ DOMAIN cur.dependency_graph = {First, Last, Third}
  /\ cur.dependency_graph[First] = {}
  /\ cur.dependency_graph[Last] = {<<First, 0>>}
  /\ cur.dependency_graph[Third] \in
       {{<<First, 0>>, <<Last, 1>>}, {<<First, 1>>, <<Last, 0>>}}

\* C13: in the A/B/M scenario every tick returns a successor state and none
\* invokes the body of M; in a tick in which M reads one of its sources, the
\* source is gone from the store the tick returns and M has one slot written,
\* whatever it read in earlier ticks.
C13_SplitInputsNeverFire ==
  ScenarioABM =>
    /\ status = "running"
    /\ Third \notin DOMAIN last.fired
    /\ Stepped =>
         \A s \in {First, Last} \cap DOMAIN last.prev.state :
           /\ s \notin DOMAIN cur.state
           /\ Cardinality(last.filled[Third]) = 1

\* M has read the value of B, after the tick in which it read the value of
\* A, and both are gone
C13_Witness ==
  /\ ScenarioABM
  /\ Stepped
  /\ DOMAIN last.prev.state = {Last}
  /\ First \in last.prev.has_been_set
  /\ Cardinality(last.filled[Third]) = 1
  /\ DOMAIN cur.state = {}

\* --------------------------------------------- dependency-graph mutations
\* a call of apply_dependency_graph_mutations has returned cur
Applied == last.op = "apply_dependency_graph_mutations"

\* the list that call was given
LastList == last.calls[Len(last.calls)]

\* the call was given the single mutation m
AppliedOne(m) == Applied /\ LastList = <<m>>

PairsOf(depends_on) == {depends_on[k] : k \in DOMAIN depends_on}

HasEntry(s, i) == i \in DOMAIN s.dependency_graph

\* states s and t agree on the entry of id j: both lack it or both hold
\* the same edge set
SameEntry(s, t, j) ==
  /\ HasEntry(s, j) <=> HasEntry(t, j)
  /\ HasEntry(s, j) => s.dependency_graph[j] = t.dependency_graph[j]

AllIds == OperationIds \cup {Third}

\* ------------------------------------------------------------------ C14
\* C14: a call with the single mutation Create(i, deps2) on a state that
\* has an entry for i returns a state whose entry for i is the set of the
\* pairs of deps2 and whose entries for the other ids are those of the
\* state it was called on.
C14_CreateReplaces ==
  \A i \in OperationIds : \A deps2 \in MutationVecs(i) :
    (AppliedOne(Create(i, deps2)) /\ HasEntry(last.before, i)) =>
      /\ HasEntry(cur, i)
      /\ cur.dependency_graph[i] = PairsOf(deps2)
      /\ \A j \in AllIds \ {i} : SameEntry(cur, last.before, j)

\* the earlier edge set held a pair that deps2 does not list, deps2 lists a
\* pair the earlier set did not hold, and another id has an entry
C14_Witness ==
  \E i \in OperationIds : \E deps2 \in MutationVecs(i) :
    /\ AppliedOne(Create(i, deps2))
    /\ HasEntry(last.before, i)
    /\ last.before.dependency_graph[i] \ PairsOf(deps2) # {}
    /\ PairsOf(deps2) \ last.before.dependency_graph[i] # {}
    /\ \E j \in OperationIds \ {i} : HasEntry(cur, j)

\* ------------------------------------------------------------------ C15
\* the mutations m and n have been applied, in this order, by one call with
\* the list <<m, n>> or by two successive calls, and nothing is pending
AppliedPair(m, n) ==
  /\ Applied
  /\ last.pending = << >>
  /\ last.calls \in {<<<<m, n>>>>, <<<<m>>, <<n>>>>}

\* C15: after Create(i, deps) and then Delete(i), passed in one list or in
\* two successive calls, the dependency-graph map has no entry for i.
C15_CreateThenDelete ==
  \A i \in OperationIds : \A deps \in MutationVecs(i) :
    AppliedPair(Create(i, deps), Delete(i)) => ~HasEntry(cur, i)

\* the two mutations were passed in one list, the Create naming the same
\* source at two slots, on a state that had no entry for the id
C15_Witness ==
  /\ Applied
  /\ last.calls =
       <<<<Create(Last, <<<<First, 0>>, <<First, 1>>>>), Delete(Last)>>>>
  /\ ~HasEntry(last.input, Last)
  /\ ~HasEntry(cur, Last)

\* ------------------------------------------------------------------ C16
\* the mutations passed so far, in the order in which they were passed
RECURSIVE Flatten(_)
Flatten(calls) ==
  IF calls = << >> THEN << >> ELSE Head(calls) \o Flatten(Tail(calls))

Passed == Flatten(last.calls)

\* the positions of the list at which id j is named
Naming(mutations, j) ==
  {k \in DOMAIN mutations : mutations[k].operation_id = j}

\* the last mutation of the list that names j
Decisive(mutations, j) ==
  mutations[CHOOSE k \in Naming(mutations, j) :
              \A l \in Naming(mutations, j) : l <= k]

\* the state returned by the last of successive calls that are given the
\* mutations of the list one at a time
RECURSIVE OneAtATime(_, _)
OneAtATime(s, mutations) ==
  IF mutations = << >> THEN s
  ELSE OneAtATime(apply_dependency_graph_mutations(s, <<Head(mutations)>>).ret,
                  Tail(mutations))

\* C16: once a list has been passed, in one call or one mutation per call,
\* the entry of every id is decided by the last mutation of the list that
\* names it (a Create leaves the set of its pairs, a Delete leaves no
\* entry), and an id that the list does not name keeps the entry of the
\* input state; the calls that pass the list at once and one at a time
\* therefore return the same map.
C16_LeftToRight ==
  (Applied /\ last.pending = << >>) =>
    /\ cur = OneAtATime(last.input, Passed)
    /\ \A j \in AllIds :
         IF Naming(Passed, j) = {}
           THEN SameEntry(cur, last.input, j)
           ELSE LET m == Decisive(Passed, j)
                IN IF m.kind = "Create"
                     THEN /\ HasEntry(cur, j)
                          /\ cur.dependency_graph[j] = PairsOf(m.depends_on)
                     ELSE ~HasEntry(cur, j)

\* one call was given a Delete followed by a Create of the same id, on a
\* state that held another edge set for that id
C16_Witness ==
  /\ Applied
  /\ last.calls = <<<<Delete(Last), Create(Last, <<<<First, 0>>>>)>>>>
  /\ HasEntry(last.input, Last)
  /\ last.input.dependency_graph[Last] # {<<First, 0>>}
  /\ cur.dependency_graph[Last] = {<<First, 0>>}

\* ------------------------------------------------------------------ C17
\* C17: a call with the single mutation Create(i, deps) on a state without
\* an entry for i returns (no call aborts) a state whose entry for i is the
\* set of the pairs of deps, a repeated pair counting once, and whose
\* entries for the other ids are those of the state it was called on,
\* whether or not operations are registered under the ids involved.
C17_CreateInserts ==
  \A i \in OperationIds : \A deps \in MutationVecs(i) :
    (AppliedOne(Create(i, deps)) /\ ~HasEntry(last.before, i)) =>
      /\ status = "running"
      /\ HasEntry(cur, i)
      /\ cur.dependency_graph[i] = PairsOf(deps)
      /\ \A j \in AllIds \ {i} : SameEntry(cur, last.before, j)

\* no operation is registered, the vector repeats a pair, and the entry
\* holds the pair once
C17_Witness ==
  /\ AppliedOne(Create(Last, <<<<First, 0>>, <<First, 0>>>>))
  /\ ~HasEntry(last.before, Last)
  /\ DOMAIN cur.operation_by_id = {}
  /\ cur.dependency_graph[Last] = {<<First, 0>>}
  /\ Cardinality(cur.dependency_graph[Last]) = 1

\* ------------------------------------------------------------------ C18
\* C18: a call with the single mutation Delete(i) on a state without an
\* entry for i returns (no call aborts) a state equal to the one it was
\* called on.
C18_DeleteMissing ==
  \A i \in OperationIds :
    (AppliedOne(Delete(i)) /\ ~HasEntry(last.before, i)) =>
      /\ status = "running"
      /\ cur = last.before

\* the state holds an entry for the other id, registered operations and
\* stored values
C18_Witness ==
  /\ AppliedOne(Delete(Last))
  /\ ~HasEntry(last.before, Last)
  /\ HasEntry(cur, First)
  /\ DOMAIN cur.state # {}
  /\ DOMAIN cur.operation_by_id # {}

\* ------------------------------------------------------------------ C19
\* C19: the state a call of apply_dependency_graph_mutations returns has
\* the store, the has_been_set, the operation table and the id of the state
\* it was called on, whatever list it was given.
C19_OnlyGraphChanges ==
  Applied =>
    /\ cur.state = last.before.state
    /\ cur.has_been_set = last.before.has_been_set
    /\ cur.operation_by_id = last.before.operation_by_id
    /\ cur.id = last.before.id

\* a Delete removed the entry of an id that is registered, holds a value
\* and is in has_been_set
C19_Witness ==
  /\ AppliedOne(Delete(Last))
  /\ HasEntry(last.before, Last)
  /\ ~HasEntry(cur, Last)
  /\ Last \in DOMAIN cur.operation_by_id
  /\ Last \in DOMAIN cur.state
  /\ Last \in cur.has_been_set

\* ------------------------------------------------------------------ C20
\* C20: after state_insert(i, v) with a present value v, state_get(i) is v,
\* state_get_value(i) returns the decoding of v, check_if_previously_set(i)
\* is true, and every other id reads as before the call; this holds for a
\* second insert under the same id as well, which leaves the second value.
C20_InsertThenGet ==
  last.op = "state_insert" =>
    LET i == last.operation_id
        v == last.value
    IN /\ state_get(cur, i) = Some(v)
       /\ state_get_value(cur, i) =
            [panicked |-> FALSE, ret |-> Some(deserialize_from_buf(v[1]))]
       /\ check_if_previously_set(cur, i)
       /\ \A j \in OperationIds \ {i} :
            /\ state_get(cur, j) = state_get(last.before, j)
            /\ check_if_previously_set(cur, j) =
                 check_if_previously_set(last.before, j)

\* the second insert put another value in the place of the first, next to
\* another id that holds a value
C20_Witness ==
  /\ last.op = "state_insert"
  /\ last.pending = << >>
  /\ state_get(last.before, last.operation_id) # None
  /\ state_get(last.before, last.operation_id) # state_get(cur, last.operation_id)
  /\ \E j \in OperationIds \ {last.operation_id} : state_get(cur, j) # None

\* ------------------------------------------------------------------ C21
\* the nodes whose body was invoked in the last tick and failed
FailedBodies ==
  {n \in DOMAIN last.fired :
     ~execute(cur.operation_by_id[n], last.fired[n]).ok}

\* C21: a tick in which a body fails returns no successor state; the state
\* it was called on reads as before the call and is the state the host
\* holds, so that no output of that tick is in any state.
C21_BodyFailureAbortsTick ==
  (last.op = "step_execution" /\ FailedBodies # {}) =>
    /\ status = "panicked"
    /\ last.kept
    /\ cur.state = last.prev.state
    /\ cur.has_been_set = last.prev.has_been_set

\* a body ran to its end and would have stored an output, then another
\* body failed in the same tick
C21_Witness ==
  /\ last.op = "step_execution"
  /\ FailedBodies # {}
  /\ \E n \in (DOMAIN last.fired) \ FailedBodies :
       /\ execute(cur.operation_by_id[n], last.fired[n]).result # None
       /\ n \notin DOMAIN cur.state
       /\ n \notin last.marked

\* ------------------------------------------------------------------ C22
\* the ids whose store entry after the tick is new or differs from the one
\* before the tick
ChangedEntries ==
  {i \in DOMAIN cur.state :
     i \notin DOMAIN last.prev.state \/ cur.state[i] # last.prev.state[i]}

\* C22: in one step no body is invoked more than once; state_insert is
\* called once for each node that fired and for no other id; an entry of
\* the returned store that is new or changed is that of a node that fired
\* and holds the result of that node's own invocation.
C22_OneWritePerFiredNode ==
  last.op = "step_execution" =>
    /\ \A n \in DOMAIN last.invoked : last.invoked[n] = 1
    /\ DOMAIN last.invoked = DOMAIN last.fired
    /\ \A n \in DOMAIN last.written : last.written[n] = 1
    /\ DOMAIN last.written \subseteq DOMAIN last.fired
    /\ Stepped =>
         /\ DOMAIN last.written = DOMAIN last.fired
         /\ \A i \in ChangedEntries :
              /\ i \in DOMAIN last.fired
              /\ cur.state[i] =
                   execute(cur.operation_by_id[i], last.fired[i]).result

\* two nodes fired in one step, one of them replacing the value it held by
\* another
C22_Witness ==
  /\ Stepped
  /\ Cardinality(DOMAIN last.fired) = 2
  /\ \E i \in ChangedEntries : i \in DOMAIN last.prev.state

\* ------------------------------------------------------------------ C23
\* the sources that held a value before the tick and feed slot k of node n
Feeding(n, k) ==
  {s \in Incoming(Graph, n) \cap DOMAIN last.prev.state :
     \E j \in DOMAIN Graph.weight[<<s, n>>] : Graph.weight[<<s, n>>][j] = k}

\* the member of S that the order `edges` yields last
YieldedLast(edges, S) ==
  edges[CHOOSE p \in DOMAIN edges :
          /\ edges[p] \in S
          /\ \A q \in DOMAIN edges : edges[q] \in S => q <= p]

\* C23: when several valued sources feed one slot of a node, every one of
\* them is marked and gone from the store the step returns, and the node,
\* if it fires, receives in that slot the value of one of them: under every
\* order in which the incoming edges can be yielded, the value of the
\* source yielded last.
C23_LastEdgeWins ==
  Stepped =>
    \A n \in DOMAIN last.filled : \A k \in last.filled[n] :
      Cardinality(Feeding(n, k)) >= 2 =>
        /\ Feeding(n, k) \subseteq last.marked
        /\ Feeding(n, k) \cap DOMAIN cur.state = {}
        /\ n \in DOMAIN last.fired =>
             /\ \E s \in Feeding(n, k) :
                  last.fired[n][k + 1] = last.prev.state[s]
             /\ \A nodeOrder \in NodeOrders(Prev), edgeOrder \in EdgeOrders(Prev) :
                  LET r == step_execution(Prev, nodeOrder, edgeOrder)
                  IN /\ ~r.panicked
                     /\ n \in DOMAIN r.fired
                     /\ r.fired[n][k + 1] =
                          last.prev.state[YieldedLast(edgeOrder[n], Feeding(n, k))]

\* two sources holding different values fed the same slot of a node that
\* fired
C23_Witness ==
  /\ Stepped
  /\ \E n \in DOMAIN last.fired : \E k \in last.filled[n] :
       /\ Cardinality(Feeding(n, k)) >= 2
       /\ \E s \in Feeding(n, k), t \in Feeding(n, k) :
            last.prev.state[s] # last.prev.state[t]

\* ------------------------------------------------------------------ C24
\* C24: the state a step returns carries an id that differs from the id of
\* the state the step was called on.
C24_StepChangesId ==
  [][(last'.op = "step_execution" /\ status' = "running") =>
       cur'.id # cur.id]_vars

\* ------------------------------------------------------------------ C25
\* the slots k with (s, k) in the edge set of n
SlotsFrom(s, n) ==
  IF HasEntry(cur, n)
    THEN {p[2] : p \in {q \in cur.dependency_graph[n] : q[1] = s}}
    ELSE {}

\* the sources named in some edge set
NamedSources ==
  {p[1] : p \in UNION {cur.dependency_graph[n] : n \in DOMAIN cur.dependency_graph}}

\* C25: the graph get_dependency_graph returns has an edge from s to n
\* exactly when the edge set of n holds a pair with source s; the weight of
\* that edge lists the slots of those pairs, each once; its nodes are the
\* keys of the map and the sources named in the edge sets; the state reads
\* after the call as before.
C25_GraphFromMap ==
  last.op = "get_dependency_graph" =>
    /\ \A s \in AllIds, n \in AllIds :
         /\ <<s, n>> \in DOMAIN last.graph.weight <=> SlotsFrom(s, n) # {}
         /\ <<s, n>> \in DOMAIN last.graph.weight =>
              LET w == last.graph.weight[<<s, n>>]
              IN /\ {w[j] : j \in DOMAIN w} = SlotsFrom(s, n)
                 /\ Len(w) = Cardinality(SlotsFrom(s, n))
    /\ DOMAIN last.graph.weight \subseteq AllIds \X AllIds
    /\ last.graph.nodes = DOMAIN cur.dependency_graph \cup NamedSources
    /\ cur = last.before

\* one source fills two slots of a node, and a node of the graph is named
\* as a source only
C25_Witness ==
  /\ last.op = "get_dependency_graph"
  /\ \E e \in DOMAIN last.graph.weight : Len(last.graph.weight[e]) = 2
  /\ last.graph.nodes \ DOMAIN cur.dependency_graph # {}

\* ------------------------------------------------------------------ C26
\* C26: the node of a Python or JavaScript cell has an input signature
\* with one entry per depended value and nothing else, each without
\* default, and an output signature with one value-typed entry per exposed
\* value, one function-typed entry per triggerable function and nothing
\* else.
C26_SignaturesFromReport ==
  (last.op = "code_cell" /\ last.cell.language \in {"PyO3", "Deno"}) =>
    LET report == last.cell.report
        input == last.node.input_signature
        output == last.node.output_signature
    IN /\ DOMAIN input = {"globals"}
       /\ DOMAIN input.globals = report.cell_depended_values
       /\ \A k \in DOMAIN input.globals :
            /\ input.globals[k].default = None
            /\ input.globals[k].ty = Some("String")
       /\ DOMAIN output = {"globals", "functions"}
       /\ DOMAIN output.globals = report.cell_exposed_values
       /\ \A k \in DOMAIN output.globals :
            output.globals[k].ty = Some("String")
       /\ DOMAIN output.functions = report.triggerable_functions
       /\ \A k \in DOMAIN output.functions :
            output.functions[k].ty = Some("Function")

\* a JavaScript cell that depends on a value and exposes, under one name, a
\* value and a function
C26_Witness ==
  /\ last.op = "code_cell"
  /\ last.cell.language = "Deno"
  /\ last.cell.report.cell_depended_values # {}
  /\ \E k \in DOMAIN last.node.output_signature.globals :
       k \in DOMAIN last.node.output_signature.functions

\* ------------------------------------------------------------------ C27
\* C27: the node of a Starlark cell has empty signatures, and every
\* invocation of its body returns the input it was given.
C27_StarlarkPassthrough ==
  (last.op \in {"code_cell", "invoke"} /\ last.cell.language = "Starlark") =>
    /\ last.node.input_signature.globals = EmptyMap
    /\ last.node.output_signature.globals = EmptyMap
    /\ last.node.output_signature.functions = EmptyMap
    /\ last.op = "invoke" =>
         /\ last.outcome.ok
         /\ last.outcome.result = last.x

\* the body of the node of a Starlark cell whose source depends on values
\* and exposes values was invoked
C27_Witness ==
  /\ last.op = "invoke"
  /\ last.cell.language = "Starlark"
  /\ last.cell.report.cell_depended_values # {}
  /\ last.cell.report.cell_exposed_values # {}
  /\ last.outcome.result = last.x

\* ------------------------------------------------------------------ C28
\* C28: in every state the host holds, every id with an entry in the store
\* is in has_been_set, and no call takes an id out of has_been_set.
C28_EverSetCoversStore ==
  /\ [](DOMAIN cur.state \subseteq cur.has_been_set)
  /\ [][cur.has_been_set \subseteq cur'.has_been_set]_vars

\* a step read the value of an id and removed it from the store; the id is
\* still in has_been_set
C28_Witness ==
  /\ Stepped
  /\ \E i \in last.marked :
       /\ i \in DOMAIN last.prev.state
       /\ i \notin DOMAIN cur.state
       /\ i \in cur.has_been_set

\* ------------------------------------------------------------------ C29
\* the graph names an id without registered operation
NamesUnregistered == ~(Graph.nodes \subseteq DOMAIN cur.operation_by_id)

\* the edges into registered nodes that carry an index that is no slot of
\* the node and whose source held a value before the tick
ValuedOutOfRange ==
  {e \in DOMAIN Graph.weight :
     /\ e[1] \in DOMAIN last.prev.state
     /\ e[2] \in DOMAIN cur.operation_by_id
     /\ \E k \in DOMAIN Graph.weight[e] :
          Graph.weight[e][k] >= DependencyCount(e[2])}

\* the node scans its incoming edges in the tick: it has dependencies, or
\* it has none and was never set
Scans(n) == DependencyCount(n) > 0 \/ n \notin last.prev.has_been_set

\* the call aborted and left the state it was called on as it was
Aborted ==
  /\ status = "panicked"
  /\ last.kept
  /\ cur.state = last.prev.state
  /\ cur.has_been_set = last.prev.has_been_set

\* C29 as stated: a step aborts whenever the graph names an unregistered id
\* or a valued source feeds an edge whose index is no slot of its target.
C29_AbortsOnBadGraph ==
  (last.op = "step_execution" /\ (NamesUnregistered \/ ValuedOutOfRange # {}))
    => Aborted

\* C29 amended: a step aborts whenever the graph names an unregistered id
\* or a valued source feeds such an edge into a node that scans its edges
\* in that tick.
C29_AbortsOnScannedBadEdge ==
  (/\ last.op = "step_execution"
   /\ \/ NamesUnregistered
      \/ \E e \in ValuedOutOfRange : Scans(e[2]))
    => Aborted

\* every id is registered and the step aborted on an edge into a node with
\* dependencies
C29_Witness ==
  /\ last.op = "step_execution"
  /\ ~NamesUnregistered
  /\ \E e \in ValuedOutOfRange : DependencyCount(e[2]) > 0
  /\ Aborted

\* ------------------------------------------------------------------ C30
\* every index of every edge is a slot of the node the edge leads into
AllInRange ==
  \A e \in DOMAIN Graph.weight :
    /\ e[2] \in DOMAIN cur.operation_by_id
    /\ \A k \in DOMAIN Graph.weight[e] :
         Graph.weight[e][k] < DependencyCount(e[2])

\* C30: a step on a state whose graph names registered ids only and wires
\* every edge on a slot of its target, and in which no invoked body fails,
\* returns a successor state.
C30_CompletesOnGoodGraph ==
  (/\ last.op = "step_execution"
   /\ ~NamesUnregistered
   /\ AllInRange
   /\ FailedBodies = {}) => status = "running"

\* two sources with values fed the same slot of a node, which fired
C30_Witness ==
  /\ Stepped
  /\ ~NamesUnregistered
  /\ AllInRange
  /\ \E n \in DOMAIN last.fired : \E k \in last.filled[n] :
       Cardinality(Feeding(n, k)) >= 2

\* ------------------------------------------------------------------ C31
\* an entry a step carried over from an earlier tick: no node fired under
\* its id and no node read it
CarriedOver ==
  {i \in DOMAIN last.prev.state : i \notin DOMAIN last.fired \cup ReadSources}

\* C31: a step returns a state with the dependency-graph map and the
\* operation table of the state it was called on, and every entry of the
\* store whose id neither fired nor was read through an edge in the tick is
\* in the returned store with the value it had (so an entry that no node
\* reads stays in the store tick after tick).
C31_StepFrame ==
  Stepped =>
    /\ cur.dependency_graph = last.prev.dependency_graph
    /\ cur.operation_by_id = last.prev.operation_by_id
    /\ \A i \in CarriedOver :
         /\ i \in DOMAIN cur.state
         /\ cur.state[i] = last.prev.state[i]

\* a step that fired a node and evicted a value it read, while the output
\* of another node, written in an earlier tick and read by nobody, stayed
\* through this tick as it had through the one before
C31_Witness ==
  /\ Stepped
  /\ DOMAIN last.fired # {}
  /\ ReadSources # {}
  /\ cur.dependency_graph # EmptyMap
  /\ \E i \in CarriedOver : i \in DOMAIN age /\ age[i] = 1

\* ------------------------------------------------------------------ C32
\* the ids the dependency-graph map names: its keys and the sources in its
\* edge sets
NamedIds == DOMAIN cur.dependency_graph \cup NamedSources

\* C32: a step processes the keys of the dependency-graph map and the
\* sources named in its edge sets, and nothing else: the nodes that scanned
\* their edges are the named ids that have dependencies or were never set
\* (the others are skipped), only named ids fire, and the stored value of an
\* id that is not named is in the returned store as it was.
C32_ProcessesNamedIds ==
  Stepped =>
    /\ DOMAIN last.filled = {n \in NamedIds : Scans(n)}
    /\ DOMAIN last.fired \subseteq NamedIds
    /\ \A i \in DOMAIN last.prev.state \ NamedIds :
         /\ i \in DOMAIN cur.state
         /\ cur.state[i] = last.prev.state[i]

\* a node without an entry of its own, named as a source by another node,
\* fired, while an id that nothing names kept its stored value
C32_Witness ==
  /\ Stepped
  /\ \E n \in NamedSources \ DOMAIN cur.dependency_graph :
       n \in DOMAIN last.fired
  /\ \E i \in DOMAIN last.prev.state \ NamedIds : i \in DOMAIN cur.state

\* ------------------------------------------------------------------ C33
\* the state is the linear chain of k nodes
IsChain(k) ==
  /\ cur.operation_by_id = Chain(k).operation_by_id
  /\ cur.dependency_graph = Chain(k).dependency_graph

\* what node j of a chain returns: the body of node 1 on no argument, the
\* body of node j + 1 on the output of node j
RECURSIVE ChainOutput(_)
ChainOutput(j) ==
  execute([dependency_count |-> IF j = 1 THEN 0 ELSE 1, func |-> "value"],
          IF j = 1 THEN << >> ELSE <<ChainOutput(j - 1)>>).result

\* C33: in a run of the linear chain of k nodes from the empty store with
\* nothing ever set, no tick aborts, tick j fires node j and no other node
\* for j <= k and a later tick fires none, and the store after tick j <= k
\* holds the output of node j and nothing else.
C33_ChainFiresInOrder ==
  \A k \in 1 .. MaxChain :
    (IsChain(k) /\ ~last.seeded) =>
      /\ status = "running"
      /\ Stepped =>
           /\ DOMAIN last.fired = IF last.tick <= k THEN {last.tick} ELSE {}
           /\ last.tick <= k =>
                cur.state = [i \in {last.tick} |-> ChainOutput(last.tick)]

\* the longest chain after the tick that follows the firing of its last
\* node
C33_Witness ==
  /\ Stepped
  /\ ~last.seeded
  /\ IsChain(MaxChain)
  /\ last.tick = MaxChain + 1
  /\ last.fired = EmptyMap
  /\ DOMAIN cur.state = {MaxChain}
  /\ cur.has_been_set = 1 .. MaxChain

\* ------------------------------------------------------------------ C34
\* the targets of the edges that leave S
Successors(S) == {e[2] : e \in {x \in DOMAIN Graph.weight : x[1] \in S}}

\* the nodes a path of 1 to n edges reaches from S
RECURSIVE ReachedWithin(_, _)
ReachedWithin(S, n) ==
  IF n = 0 THEN {}
  ELSE Successors(S) \cup ReachedWithin(Successors(S), n - 1)

Acyclic ==
  \A v \in Graph.nodes :
    v \notin ReachedWithin({v}, Cardinality(Graph.nodes))

\* C34: in a run of ticks over an acyclic graph, the tick whose number is
\* the number of the graph's nodes plus one, and every later tick, fires no
\* node and returns the store and has_been_set it was called on.
C34_FixedPoint ==
  (Stepped /\ Acyclic /\ last.tick >= Cardinality(Graph.nodes) + 1) =>
    /\ last.fired = EmptyMap
    /\ cur.state = last.prev.state
    /\ cur.has_been_set = last.prev.has_been_set

\* the fixed point of a run that started from an inserted value: every
\* node of a graph with edges has fired or been set, and a value is left
C34_Witness ==
  /\ Stepped
  /\ Acyclic
  /\ last.seeded
  /\ last.tick = Cardinality(Graph.nodes) + 1
  /\ DOMAIN Graph.weight # {}
  /\ cur.has_been_set = Graph.nodes
  /\ cur.state # EmptyMap

\* ------------------------------------------------------------------ C35
\* the nodes whose body ran in the last tick and returned absence
AbsentFired ==
  {n \in DOMAIN last.fired :
     LET r == execute(cur.operation_by_id[n], last.fired[n])
     IN r.ok /\ r.result = None}

\* the ids that held an absent value before the last tick
AbsentHeld == {s \in DOMAIN last.prev.state : last.prev.state[s] = None}

\* the number of indices on the edges into n from the sources in S
RECURSIVE IndicesFrom(_, _)
IndicesFrom(S, n) ==
  IF S = {} THEN 0
  ELSE LET s == CHOOSE x \in S : TRUE
       IN Len(Graph.weight[<<s, n>>]) + IndicesFrom(S \ {s}, n)

\* the sources of n that held an entry, absent or present, before the tick
Held(n) == Incoming(Graph, n) \cap DOMAIN last.prev.state

\* what the next tick does with the absent entries: a node that scans its
\* edges has the slots fed by an absent entry written, with absence unless a
\* present value is written to the same slot, the indices of those edges
\* count like any others toward its dependency_count, and the entry that is
\* read is gone from the returned store unless its node fired again
AbsentEntriesAreRead ==
  \A n \in DOMAIN last.filled :
    /\ \A s \in AbsentHeld \cap Incoming(Graph, n) :
         /\ SlotsFrom(s, n) \subseteq last.filled[n]
         /\ s \in DOMAIN cur.state => s \in DOMAIN last.fired
    /\ n \in DOMAIN last.fired <=>
         IndicesFrom(Held(n), n) >= DependencyCount(n)
    /\ n \in DOMAIN last.fired =>
         \A k \in last.filled[n] :
           (Feeding(n, k) \subseteq AbsentHeld) => last.fired[n][k + 1] = None

\* C35: a node whose body returned absence has an absent entry under its
\* id in the returned store and its id in has_been_set, a node without
\* dependencies is invoked at most once whatever it returns, and in the
\* next tick an absent entry fills the slots of its consumers, counts
\* toward their dependency_count and is evicted.
C35_AbsenceIsRecorded ==
  /\ \A i \in OperationIds : zeroRuns[i] <= 1
  /\ Stepped =>
       /\ \A n \in AbsentFired :
            /\ n \in DOMAIN cur.state
            /\ cur.state[n] = None
            /\ n \in cur.has_been_set
       /\ AbsentEntriesAreRead

\* ------------------------------------------------------------------ C36
\* the ids written before the node without dependencies registered under
\* them has ever run: the id holds an entry or is in has_been_set, and no
\* such node has been invoked under it
WrittenUnfired ==
  {i \in OperationIds :
     (i \in DOMAIN cur.state \/ i \in cur.has_been_set) /\ zeroRuns[i] = 0}

\* C36: once an id has been written while the node without dependencies
\* under it has never run, no later call invokes the body of such a node
\* under that id.
C36_InsertedNeverRuns ==
  [][\A i \in WrittenUnfired : zeroRuns'[i] = 0]_vars

\* a step passed over a registered node without dependencies whose id had
\* been written: the node is in the graph, has never run, and the entry
\* written under its id has already been read and evicted
C36_Witness ==
  /\ Stepped
  /\ \E i \in WrittenUnfired :
       /\ i \in DOMAIN cur.operation_by_id
       /\ DependencyCount(i) = 0
       /\ i \in Graph.nodes
       /\ i \in last.prev.has_been_set
       /\ i \notin DOMAIN last.prev.state
       /\ i \notin DOMAIN last.filled

\* ------------------------------------------------------------------ C37
\* what the host reads from the three snapshots
Now == ObservedAll(cur)

Other(side) == IF side = "left" THEN "right" ELSE "left"

RECURSIVE FencesFrom(_, _)
FencesFrom(s, at) ==
  LET hit == find(From(s, at))
  IN IF hit = None THEN << >>
     ELSE <<at + hit[1]>> \o FencesFrom(s, at + hit[1] + Len(Fence))

\* the text between the fences at offsets opening and closing
Content(body, opening, closing) == Slice(body, opening + Len(Fence), closing)

\* the opening line: what follows the opening fence up to the end of its line
OpeningLine(content) == Slice(content, 0, Run(content, {"\n"}))

\* the lines after the opening line
RemainingLines(content) ==
  lines(From(content, Min(Run(content, {"\n"}) + 1, Len(content))))

Unparenthesised(token) ==
  IF Len(token) >= 2 /\ Head(token) = "(" /\ token[Len(token)] = ")"
    THEN Some(Slice(token, 1, Len(token) - 1)) ELSE None

\* the block the claim describes for a pair of fences; bodies are compared
\* up to surrounding white space
Described(block, body, opening, closing) ==
  LET tokens == split_whitespace(OpeningLine(Content(body, opening, closing)))
  IN /\ block.range = [start |-> opening + Len(Fence), end |-> closing]
     /\ block.tag = IF tokens = << >> THEN << >> ELSE tokens[1]
     /\ block.name = IF Len(tokens) < 2 THEN None
                     ELSE Unparenthesised(tokens[2])
     /\ trim(block.body)
          = trim(join(RemainingLines(Content(body, opening, closing))))

\* C38: extract_code_blocks returns one block per consecutive pair of
\* fences, in document order, with increasing ranges that do not overlap;
\* the tag is the first token of the opening line, the name the second
\* token without its parentheses (absent when it has none), the body the
\* remaining lines; an unclosed fence yields no block; and every iteration
\* that does not leave the loop moves start forward within the text, so
\* the scan terminates.
C38_BlocksPerFencePair ==
  LET fences == FencesFrom(cur.body, 0)
      blocks == cur.code_blocks
  IN /\ cur.start <= Len(cur.body)
     /\ last.op = "extract_code_blocks" => cur.done \/ cur.start > last.start
     /\ cur.done =>
          /\ Len(blocks) = Len(fences) \div 2
          /\ \A j \in 1 .. Len(blocks) :
               Described(blocks[j], cur.body, fences[2 * j - 1], fences[2 * j])
          /\ \A j \in 1 .. (Len(blocks) - 1) :
               blocks[j].range.end < blocks[j + 1].range.start

====
